---- MODULE Spec2Model ----
(***************************************************************************)
(* A model of src/server.js: an OpenAI-dialect proxy in front of the       *)
(* NVIDIA NIM chat-completion API.                                         *)
(*                                                                         *)
(* JavaScript strings are modelled as sequences of one-character strings,  *)
(* so that toLowerCase, includes, startsWith, split and the regular        *)
(* expressions of the source are computed character by character.  The     *)
(* non-string values undefined and null are one-element tuples holding the *)
(* value's name; no string equals them.                                    *)
(*                                                                         *)
(* Spec         the chat-completions handler under concurrent requests:    *)
(*              validation, model resolution (alias table, cache, probe,   *)
(*              fallback) and the full upstream call.                      *)
(* SpecHandler  the same handler serving one request, over every body,     *)
(*              followed by the stream of its response.                    *)
(* SpecFallback the fallback heuristic as a function of the public name.   *)
(* SpecStream   the stream transformer of one streaming response.          *)
(* SpecTranslate the translation of one choice of a non-streaming response.*)
(***************************************************************************)
EXTENDS Integers, Sequences, FiniteSets, TLC

VARIABLES
    verifiedModels,   \* the process-wide Map of server.js:41
    req,              \* per inbound request: position, body, locals, response
    bodies,           \* the request bodies the clients may send
    clients,          \* how many requests the clients send
    fbName,           \* SpecFallback: the public name handed to the heuristic
    fbModel,          \* SpecFallback: the backend name it chose
    SHOW_REASONING,   \* trace display (server.js:19)
    upstream,         \* SpecStream: the text response.data delivers before 'end'
    splits,           \* SpecStream: where the network may cut it into chunks
    pos,              \* SpecStream: how much of it has been delivered
    received,         \* history: the chunks' toString() results, concatenated
    buffer,           \* the held-back partial line (server.js:154)
    reasoningStarted, \* a reasoning section is open (server.js:155)
    out,              \* the res.write calls made so far, in order
    phase,            \* "streaming", "ended" or "errored"; "none" outside SpecStream
    choice,           \* SpecTranslate: one choice of a non-streaming upstream response
    useThinking,      \* SpecTranslate: the handler's useThinking (server.js:121)
    translated        \* SpecTranslate: the choice of openaiResponse made from it

handlerVars == <<verifiedModels, req, bodies, clients>>

fallbackVars == <<fbName, fbModel>>

streamVars ==
    <<SHOW_REASONING, upstream, splits, pos, received, buffer, reasoningStarted,
      out, phase>>

translateVars == <<choice, useThinking, translated>>

vars == <<handlerVars, fallbackVars, streamVars, translateVars>>

-----------------------------------------------------------------------------
(* JavaScript values and string operations                                 *)

undefined == <<"undefined">>

null == <<"null">>

\* Object.prototype.constructor, what MODEL_MAPPING['constructor'] evaluates to
ObjectConstructor == <<"function Object">>

\* Object.prototype itself, what MODEL_MAPPING['__proto__'] evaluates to
ObjectPrototype == <<"object Object.prototype">>

\* the names of the functions every plain object inherits from
\* Object.prototype
ObjectPrototypeFunctions ==
    { <<"c","o","n","s","t","r","u","c","t","o","r">>,
      <<"_","_","d","e","f","i","n","e","G","e","t","t","e","r","_","_">>,
      <<"_","_","d","e","f","i","n","e","S","e","t","t","e","r","_","_">>,
      <<"h","a","s","O","w","n","P","r","o","p","e","r","t","y">>,
      <<"_","_","l","o","o","k","u","p","G","e","t","t","e","r","_","_">>,
      <<"_","_","l","o","o","k","u","p","S","e","t","t","e","r","_","_">>,
      <<"i","s","P","r","o","t","o","t","y","p","e","O","f">>,
      <<"p","r","o","p","e","r","t","y","I","s","E","n","u","m","e","r","a","b","l","e">>,
      <<"t","o","S","t","r","i","n","g">>,
      <<"v","a","l","u","e","O","f">>,
      <<"t","o","L","o","c","a","l","e","S","t","r","i","n","g">> }

\* the function a plain object inherits under a name
InheritedFunction(name) ==
    IF name = <<"c","o","n","s","t","r","u","c","t","o","r">>
    THEN ObjectConstructor ELSE <<"function">> \o name

NonStrings ==
    {undefined, null, ObjectPrototype}
        \cup { InheritedFunction(name) : name \in ObjectPrototypeFunctions }

IsString(v) == v \notin NonStrings

\* ToBoolean: undefined, null and the empty string are falsy
Truthy(v) == v # undefined /\ v # null /\ v # <<>>

(* Characters. A character of ASCII is written as itself, any other code   *)
(* unit by its number: "U+00C9" is LATIN CAPITAL LETTER E WITH ACUTE. A     *)
(* code point above U+FFFF is the two code units of its surrogate pair      *)

NL == "\n"

CR == "\r"

FF == "\f"

TAB == "\t"

Quote == "\""

Backslash == "\\"

\* the printable characters of ASCII, U+0020 to U+007E (the grave accent,
\* which no string of this language holds, by its number)
AsciiPrintable ==
    <<" ","!","\"","#","$","%","&","'","(",")","*","+",",","-",".","/",
      "0","1","2","3","4","5","6","7","8","9",":",";","<","=",">","?",
      "@","A","B","C","D","E","F","G","H","I","J","K","L","M","N","O",
      "P","Q","R","S","T","U","V","W","X","Y","Z","[","\\","]","^","_",
      "U+0060","a","b","c","d","e","f","g","h","i","j","k","l","m","n","o",
      "p","q","r","s","t","u","v","w","x","y","z","{","|","}","~">>

HexUpper == <<"0","1","2","3","4","5","6","7","8","9","A","B","C","D","E","F">>

\* the character of a code unit, as the model writes characters
CodeUnit(n) ==
    IF n = 9 THEN TAB
    ELSE IF n = 10 THEN NL
    ELSE IF n = 12 THEN FF
    ELSE IF n = 13 THEN CR
    ELSE IF n >= 32 /\ n <= 126 THEN AsciiPrintable[n - 31]
    ELSE "U+" \o HexUpper[(n \div 4096) + 1] \o HexUpper[((n \div 256) % 16) + 1]
              \o HexUpper[((n \div 16) % 16) + 1] \o HexUpper[(n % 16) + 1]

\* the code units of a code point
CodeUnits(n) ==
    IF n < 65536 THEN <<CodeUnit(n)>>
    ELSE <<CodeUnit(\hD800 + ((n - 65536) \div 1024)),
           CodeUnit(\hDC00 + ((n - 65536) % 1024))>>

HighSurrogates == { CodeUnit(n) : n \in \hD800..\hDBFF }

LowSurrogates == { CodeUnit(n) : n \in \hDC00..\hDFFF }

\* the code point that starts at position i of s: a surrogate pair, or one
\* code unit
CodePointAt(s, i) ==
    IF i < Len(s) /\ s[i] \in HighSurrogates /\ s[i + 1] \in LowSurrogates
    THEN <<s[i], s[i + 1]>> ELSE <<s[i]>>

\* the code point that ends at position i of s
CodePointBefore(s, i) ==
    IF i > 1 /\ s[i - 1] \in HighSurrogates /\ s[i] \in LowSurrogates
    THEN <<s[i - 1], s[i]>> ELSE <<s[i]>>

(* String.prototype.toLowerCase (line 109): the lower-case mapping of the   *)
(* Unicode Character Database, which is independent of the locale but for  *)
(* the capital sigma, lowered by its place in the word                     *)

\* the code points with a lower case of one code point, in runs: from the
\* first to the last of a run in steps, each lowered by adding the same
\* number: <<first, last, step, added>>
LowerCaseRuns ==
    {
      <<\h0041,\h005A,1,32>>, <<\h00C0,\h00D6,1,32>>,
      <<\h00D8,\h00DE,1,32>>, <<\h0100,\h012E,2,1>>, <<\h0132,\h0136,2,1>>,
      <<\h0139,\h0147,2,1>>, <<\h014A,\h0176,2,1>>,
      <<\h0178,\h0178,1,-121>>, <<\h0179,\h017D,2,1>>,
      <<\h0181,\h0181,1,210>>, <<\h0182,\h0184,2,1>>,
      <<\h0186,\h0186,1,206>>, <<\h0187,\h0187,1,1>>,
      <<\h0189,\h018A,1,205>>, <<\h018B,\h018B,1,1>>,
      <<\h018E,\h018E,1,79>>, <<\h018F,\h018F,1,202>>,
      <<\h0190,\h0190,1,203>>, <<\h0191,\h0191,1,1>>,
      <<\h0193,\h0193,1,205>>, <<\h0194,\h0194,1,207>>,
      <<\h0196,\h0196,1,211>>, <<\h0197,\h0197,1,209>>,
      <<\h0198,\h0198,1,1>>, <<\h019C,\h019C,1,211>>,
      <<\h019D,\h019D,1,213>>, <<\h019F,\h019F,1,214>>,
      <<\h01A0,\h01A4,2,1>>, <<\h01A6,\h01A6,1,218>>,
      <<\h01A7,\h01A7,1,1>>, <<\h01A9,\h01A9,1,218>>,
      <<\h01AC,\h01AC,1,1>>, <<\h01AE,\h01AE,1,218>>,
      <<\h01AF,\h01AF,1,1>>, <<\h01B1,\h01B2,1,217>>,
      <<\h01B3,\h01B5,2,1>>, <<\h01B7,\h01B7,1,219>>,
      <<\h01B8,\h01B8,1,1>>, <<\h01BC,\h01BC,1,1>>, <<\h01C4,\h01C4,1,2>>,
      <<\h01C5,\h01C5,1,1>>, <<\h01C7,\h01C7,1,2>>, <<\h01C8,\h01C8,1,1>>,
      <<\h01CA,\h01CA,1,2>>, <<\h01CB,\h01DB,2,1>>, <<\h01DE,\h01EE,2,1>>,
      <<\h01F1,\h01F1,1,2>>, <<\h01F2,\h01F4,2,1>>,
      <<\h01F6,\h01F6,1,-97>>, <<\h01F7,\h01F7,1,-56>>,
      <<\h01F8,\h021E,2,1>>, <<\h0220,\h0220,1,-130>>,
      <<\h0222,\h0232,2,1>>, <<\h023A,\h023A,1,10795>>,
      <<\h023B,\h023B,1,1>>, <<\h023D,\h023D,1,-163>>,
      <<\h023E,\h023E,1,10792>>, <<\h0241,\h0241,1,1>>,
      <<\h0243,\h0243,1,-195>>, <<\h0244,\h0244,1,69>>,
      <<\h0245,\h0245,1,71>>, <<\h0246,\h024E,2,1>>, <<\h0370,\h0372,2,1>>,
      <<\h0376,\h0376,1,1>>, <<\h037F,\h037F,1,116>>,
      <<\h0386,\h0386,1,38>>, <<\h0388,\h038A,1,37>>,
      <<\h038C,\h038C,1,64>>, <<\h038E,\h038F,1,63>>,
      <<\h0391,\h03A1,1,32>>, <<\h03A3,\h03AB,1,32>>,
      <<\h03CF,\h03CF,1,8>>, <<\h03D8,\h03EE,2,1>>,
      <<\h03F4,\h03F4,1,-60>>, <<\h03F7,\h03F7,1,1>>,
      <<\h03F9,\h03F9,1,-7>>, <<\h03FA,\h03FA,1,1>>,
      <<\h03FD,\h03FF,1,-130>>, <<\h0400,\h040F,1,80>>,
      <<\h0410,\h042F,1,32>>, <<\h0460,\h0480,2,1>>, <<\h048A,\h04BE,2,1>>,
      <<\h04C0,\h04C0,1,15>>, <<\h04C1,\h04CD,2,1>>, <<\h04D0,\h052E,2,1>>,
      <<\h0531,\h0556,1,48>>, <<\h10A0,\h10C5,1,7264>>,
      <<\h10C7,\h10C7,1,7264>>, <<\h10CD,\h10CD,1,7264>>,
      <<\h13A0,\h13EF,1,38864>>, <<\h13F0,\h13F5,1,8>>,
      <<\h1C89,\h1C89,1,1>>, <<\h1C90,\h1CBA,1,-3008>>,
      <<\h1CBD,\h1CBF,1,-3008>>, <<\h1E00,\h1E94,2,1>>,
      <<\h1E9E,\h1E9E,1,-7615>>, <<\h1EA0,\h1EFE,2,1>>,
      <<\h1F08,\h1F0F,1,-8>>, <<\h1F18,\h1F1D,1,-8>>,
      <<\h1F28,\h1F2F,1,-8>>, <<\h1F38,\h1F3F,1,-8>>,
      <<\h1F48,\h1F4D,1,-8>>, <<\h1F59,\h1F5F,2,-8>>,
      <<\h1F68,\h1F6F,1,-8>>, <<\h1F88,\h1F8F,1,-8>>,
      <<\h1F98,\h1F9F,1,-8>>, <<\h1FA8,\h1FAF,1,-8>>,
      <<\h1FB8,\h1FB9,1,-8>>, <<\h1FBA,\h1FBB,1,-74>>,
      <<\h1FBC,\h1FBC,1,-9>>, <<\h1FC8,\h1FCB,1,-86>>,
      <<\h1FCC,\h1FCC,1,-9>>, <<\h1FD8,\h1FD9,1,-8>>,
      <<\h1FDA,\h1FDB,1,-100>>, <<\h1FE8,\h1FE9,1,-8>>,
      <<\h1FEA,\h1FEB,1,-112>>, <<\h1FEC,\h1FEC,1,-7>>,
      <<\h1FF8,\h1FF9,1,-128>>, <<\h1FFA,\h1FFB,1,-126>>,
      <<\h1FFC,\h1FFC,1,-9>>, <<\h2126,\h2126,1,-7517>>,
      <<\h212A,\h212A,1,-8383>>, <<\h212B,\h212B,1,-8262>>,
      <<\h2132,\h2132,1,28>>, <<\h2160,\h216F,1,16>>,
      <<\h2183,\h2183,1,1>>, <<\h24B6,\h24CF,1,26>>,
      <<\h2C00,\h2C2F,1,48>>, <<\h2C60,\h2C60,1,1>>,
      <<\h2C62,\h2C62,1,-10743>>, <<\h2C63,\h2C63,1,-3814>>,
      <<\h2C64,\h2C64,1,-10727>>, <<\h2C67,\h2C6B,2,1>>,
      <<\h2C6D,\h2C6D,1,-10780>>, <<\h2C6E,\h2C6E,1,-10749>>,
      <<\h2C6F,\h2C6F,1,-10783>>, <<\h2C70,\h2C70,1,-10782>>,
      <<\h2C72,\h2C72,1,1>>, <<\h2C75,\h2C75,1,1>>,
      <<\h2C7E,\h2C7F,1,-10815>>, <<\h2C80,\h2CE2,2,1>>,
      <<\h2CEB,\h2CED,2,1>>, <<\h2CF2,\h2CF2,1,1>>, <<\hA640,\hA66C,2,1>>,
      <<\hA680,\hA69A,2,1>>, <<\hA722,\hA72E,2,1>>, <<\hA732,\hA76E,2,1>>,
      <<\hA779,\hA77B,2,1>>, <<\hA77D,\hA77D,1,-35332>>,
      <<\hA77E,\hA786,2,1>>, <<\hA78B,\hA78B,1,1>>,
      <<\hA78D,\hA78D,1,-42280>>, <<\hA790,\hA792,2,1>>,
      <<\hA796,\hA7A8,2,1>>, <<\hA7AA,\hA7AA,1,-42308>>,
      <<\hA7AB,\hA7AB,1,-42319>>, <<\hA7AC,\hA7AC,1,-42315>>,
      <<\hA7AD,\hA7AD,1,-42305>>, <<\hA7AE,\hA7AE,1,-42308>>,
      <<\hA7B0,\hA7B0,1,-42258>>, <<\hA7B1,\hA7B1,1,-42282>>,
      <<\hA7B2,\hA7B2,1,-42261>>, <<\hA7B3,\hA7B3,1,928>>,
      <<\hA7B4,\hA7C2,2,1>>, <<\hA7C4,\hA7C4,1,-48>>,
      <<\hA7C5,\hA7C5,1,-42307>>, <<\hA7C6,\hA7C6,1,-35384>>,
      <<\hA7C7,\hA7C9,2,1>>, <<\hA7CB,\hA7CB,1,-42343>>,
      <<\hA7CC,\hA7DA,2,1>>, <<\hA7DC,\hA7DC,1,-42561>>,
      <<\hA7F5,\hA7F5,1,1>>, <<\hFF21,\hFF3A,1,32>>,
      <<\h10400,\h10427,1,40>>, <<\h104B0,\h104D3,1,40>>,
      <<\h10570,\h10594,2,39>>, <<\h10571,\h10579,2,39>>,
      <<\h1057D,\h10589,2,39>>, <<\h1058D,\h10591,2,39>>,
      <<\h10595,\h10595,1,39>>, <<\h10C80,\h10CB2,1,64>>,
      <<\h10D50,\h10D65,1,32>>, <<\h118A0,\h118BF,1,32>>,
      <<\h16E40,\h16E5F,1,32>>, <<\h16EA0,\h16EB8,1,27>>,
      <<\h1E900,\h1E921,1,34>>
    }

RunPoints(run) == { n \in run[1]..run[2] : (n - run[1]) % run[3] = 0 }

\* the mappings of the runs, as pairs of code unit sequences
LowerCasePairs ==
    UNION { { <<CodeUnits(n), CodeUnits(n + run[4])>> : n \in RunPoints(run) } :
            run \in LowerCaseRuns }

LowerCaseMap ==
    [ u \in { p[1] : p \in LowerCasePairs } |->
        (CHOOSE p \in LowerCasePairs : p[1] = u)[2] ]

\* LATIN CAPITAL LETTER I WITH DOT ABOVE, whose lower case is two characters
CapitalDottedI == "U+0130"

CombiningDotAbove == "U+0307"

CapitalSigma == "U+03A3"

FinalSmallSigma == "U+03C2"

\* LAO YAMAKKAN, a case-ignorable character
LaoYamakkan == "U+0ECE"

\* the code points with the property Cased, in ranges
CasedRanges ==
    {
      <<\h0041,\h005A>>, <<\h0061,\h007A>>, <<\h00AA,\h00AA>>,
      <<\h00B5,\h00B5>>, <<\h00BA,\h00BA>>, <<\h00C0,\h00D6>>,
      <<\h00D8,\h00F6>>, <<\h00F8,\h01BA>>, <<\h01BC,\h01BF>>,
      <<\h01C4,\h0293>>, <<\h0296,\h02B8>>, <<\h02C0,\h02C1>>,
      <<\h02E0,\h02E4>>, <<\h0345,\h0345>>, <<\h0370,\h0373>>,
      <<\h0376,\h0377>>, <<\h037A,\h037D>>, <<\h037F,\h037F>>,
      <<\h0386,\h0386>>, <<\h0388,\h038A>>, <<\h038C,\h038C>>,
      <<\h038E,\h03A1>>, <<\h03A3,\h03F5>>, <<\h03F7,\h0481>>,
      <<\h048A,\h052F>>, <<\h0531,\h0556>>, <<\h0560,\h0588>>,
      <<\h10A0,\h10C5>>, <<\h10C7,\h10C7>>, <<\h10CD,\h10CD>>,
      <<\h10D0,\h10FA>>, <<\h10FC,\h10FF>>, <<\h13A0,\h13F5>>,
      <<\h13F8,\h13FD>>, <<\h1C80,\h1C8A>>, <<\h1C90,\h1CBA>>,
      <<\h1CBD,\h1CBF>>, <<\h1D00,\h1DBF>>, <<\h1E00,\h1F15>>,
      <<\h1F18,\h1F1D>>, <<\h1F20,\h1F45>>, <<\h1F48,\h1F4D>>,
      <<\h1F50,\h1F57>>, <<\h1F59,\h1F59>>, <<\h1F5B,\h1F5B>>,
      <<\h1F5D,\h1F5D>>, <<\h1F5F,\h1F7D>>, <<\h1F80,\h1FB4>>,
      <<\h1FB6,\h1FBC>>, <<\h1FBE,\h1FBE>>, <<\h1FC2,\h1FC4>>,
      <<\h1FC6,\h1FCC>>, <<\h1FD0,\h1FD3>>, <<\h1FD6,\h1FDB>>,
      <<\h1FE0,\h1FEC>>, <<\h1FF2,\h1FF4>>, <<\h1FF6,\h1FFC>>,
      <<\h2071,\h2071>>, <<\h207F,\h207F>>, <<\h2090,\h209C>>,
      <<\h2102,\h2102>>, <<\h2107,\h2107>>, <<\h210A,\h2113>>,
      <<\h2115,\h2115>>, <<\h2119,\h211D>>, <<\h2124,\h2124>>,
      <<\h2126,\h2126>>, <<\h2128,\h2128>>, <<\h212A,\h212D>>,
      <<\h212F,\h2134>>, <<\h2139,\h2139>>, <<\h213C,\h213F>>,
      <<\h2145,\h2149>>, <<\h214E,\h214E>>, <<\h2160,\h217F>>,
      <<\h2183,\h2184>>, <<\h24B6,\h24E9>>, <<\h2C00,\h2CE4>>,
      <<\h2CEB,\h2CEE>>, <<\h2CF2,\h2CF3>>, <<\h2D00,\h2D25>>,
      <<\h2D27,\h2D27>>, <<\h2D2D,\h2D2D>>, <<\hA640,\hA66D>>,
      <<\hA680,\hA69D>>, <<\hA722,\hA787>>, <<\hA78B,\hA78E>>,
      <<\hA790,\hA7DC>>, <<\hA7F1,\hA7F6>>, <<\hA7F8,\hA7FA>>,
      <<\hAB30,\hAB5A>>, <<\hAB5C,\hAB69>>, <<\hAB70,\hABBF>>,
      <<\hFB00,\hFB06>>, <<\hFB13,\hFB17>>, <<\hFF21,\hFF3A>>,
      <<\hFF41,\hFF5A>>, <<\h10400,\h1044F>>, <<\h104B0,\h104D3>>,
      <<\h104D8,\h104FB>>, <<\h10570,\h1057A>>, <<\h1057C,\h1058A>>,
      <<\h1058C,\h10592>>, <<\h10594,\h10595>>, <<\h10597,\h105A1>>,
      <<\h105A3,\h105B1>>, <<\h105B3,\h105B9>>, <<\h105BB,\h105BC>>,
      <<\h10780,\h10780>>, <<\h10783,\h10785>>, <<\h10787,\h107B0>>,
      <<\h107B2,\h107BA>>, <<\h10C80,\h10CB2>>, <<\h10CC0,\h10CF2>>,
      <<\h10D50,\h10D65>>, <<\h10D70,\h10D85>>, <<\h118A0,\h118DF>>,
      <<\h16E40,\h16E7F>>, <<\h16EA0,\h16EB8>>, <<\h16EBB,\h16ED3>>,
      <<\h1D400,\h1D454>>, <<\h1D456,\h1D49C>>, <<\h1D49E,\h1D49F>>,
      <<\h1D4A2,\h1D4A2>>, <<\h1D4A5,\h1D4A6>>, <<\h1D4A9,\h1D4AC>>,
      <<\h1D4AE,\h1D4B9>>, <<\h1D4BB,\h1D4BB>>, <<\h1D4BD,\h1D4C3>>,
      <<\h1D4C5,\h1D505>>, <<\h1D507,\h1D50A>>, <<\h1D50D,\h1D514>>,
      <<\h1D516,\h1D51C>>, <<\h1D51E,\h1D539>>, <<\h1D53B,\h1D53E>>,
      <<\h1D540,\h1D544>>, <<\h1D546,\h1D546>>, <<\h1D54A,\h1D550>>,
      <<\h1D552,\h1D6A5>>, <<\h1D6A8,\h1D6C0>>, <<\h1D6C2,\h1D6DA>>,
      <<\h1D6DC,\h1D6FA>>, <<\h1D6FC,\h1D714>>, <<\h1D716,\h1D734>>,
      <<\h1D736,\h1D74E>>, <<\h1D750,\h1D76E>>, <<\h1D770,\h1D788>>,
      <<\h1D78A,\h1D7A8>>, <<\h1D7AA,\h1D7C2>>, <<\h1D7C4,\h1D7CB>>,
      <<\h1DF00,\h1DF09>>, <<\h1DF0B,\h1DF1E>>, <<\h1DF25,\h1DF2A>>,
      <<\h1E030,\h1E06D>>, <<\h1E900,\h1E943>>, <<\h1F130,\h1F149>>,
      <<\h1F150,\h1F169>>, <<\h1F170,\h1F189>>
    }

\* the code points with the property Case_Ignorable, in ranges
CaseIgnorableRanges ==
    {
      <<\h0027,\h0027>>, <<\h002E,\h002E>>, <<\h003A,\h003A>>,
      <<\h005E,\h005E>>, <<\h0060,\h0060>>, <<\h00A8,\h00A8>>,
      <<\h00AD,\h00AD>>, <<\h00AF,\h00AF>>, <<\h00B4,\h00B4>>,
      <<\h00B7,\h00B8>>, <<\h02B0,\h036F>>, <<\h0374,\h0375>>,
      <<\h037A,\h037A>>, <<\h0384,\h0385>>, <<\h0387,\h0387>>,
      <<\h0483,\h0489>>, <<\h0559,\h0559>>, <<\h055F,\h055F>>,
      <<\h0591,\h05BD>>, <<\h05BF,\h05BF>>, <<\h05C1,\h05C2>>,
      <<\h05C4,\h05C5>>, <<\h05C7,\h05C7>>, <<\h05F4,\h05F4>>,
      <<\h0600,\h0605>>, <<\h0610,\h061A>>, <<\h061C,\h061C>>,
      <<\h0640,\h0640>>, <<\h064B,\h065F>>, <<\h0670,\h0670>>,
      <<\h06D6,\h06DD>>, <<\h06DF,\h06E8>>, <<\h06EA,\h06ED>>,
      <<\h070F,\h070F>>, <<\h0711,\h0711>>, <<\h0730,\h074A>>,
      <<\h07A6,\h07B0>>, <<\h07EB,\h07F5>>, <<\h07FA,\h07FA>>,
      <<\h07FD,\h07FD>>, <<\h0816,\h082D>>, <<\h0859,\h085B>>,
      <<\h0888,\h0888>>, <<\h0890,\h0891>>, <<\h0897,\h089F>>,
      <<\h08C9,\h0902>>, <<\h093A,\h093A>>, <<\h093C,\h093C>>,
      <<\h0941,\h0948>>, <<\h094D,\h094D>>, <<\h0951,\h0957>>,
      <<\h0962,\h0963>>, <<\h0971,\h0971>>, <<\h0981,\h0981>>,
      <<\h09BC,\h09BC>>, <<\h09C1,\h09C4>>, <<\h09CD,\h09CD>>,
      <<\h09E2,\h09E3>>, <<\h09FE,\h09FE>>, <<\h0A01,\h0A02>>,
      <<\h0A3C,\h0A3C>>, <<\h0A41,\h0A42>>, <<\h0A47,\h0A48>>,
      <<\h0A4B,\h0A4D>>, <<\h0A51,\h0A51>>, <<\h0A70,\h0A71>>,
      <<\h0A75,\h0A75>>, <<\h0A81,\h0A82>>, <<\h0ABC,\h0ABC>>,
      <<\h0AC1,\h0AC5>>, <<\h0AC7,\h0AC8>>, <<\h0ACD,\h0ACD>>,
      <<\h0AE2,\h0AE3>>, <<\h0AFA,\h0AFF>>, <<\h0B01,\h0B01>>,
      <<\h0B3C,\h0B3C>>, <<\h0B3F,\h0B3F>>, <<\h0B41,\h0B44>>,
      <<\h0B4D,\h0B4D>>, <<\h0B55,\h0B56>>, <<\h0B62,\h0B63>>,
      <<\h0B82,\h0B82>>, <<\h0BC0,\h0BC0>>, <<\h0BCD,\h0BCD>>,
      <<\h0C00,\h0C00>>, <<\h0C04,\h0C04>>, <<\h0C3C,\h0C3C>>,
      <<\h0C3E,\h0C40>>, <<\h0C46,\h0C48>>, <<\h0C4A,\h0C4D>>,
      <<\h0C55,\h0C56>>, <<\h0C62,\h0C63>>, <<\h0C81,\h0C81>>,
      <<\h0CBC,\h0CBC>>, <<\h0CBF,\h0CBF>>, <<\h0CC6,\h0CC6>>,
      <<\h0CCC,\h0CCD>>, <<\h0CE2,\h0CE3>>, <<\h0D00,\h0D01>>,
      <<\h0D3B,\h0D3C>>, <<\h0D41,\h0D44>>, <<\h0D4D,\h0D4D>>,
      <<\h0D62,\h0D63>>, <<\h0D81,\h0D81>>, <<\h0DCA,\h0DCA>>,
      <<\h0DD2,\h0DD4>>, <<\h0DD6,\h0DD6>>, <<\h0E31,\h0E31>>,
      <<\h0E34,\h0E3A>>, <<\h0E46,\h0E4E>>, <<\h0EB1,\h0EB1>>,
      <<\h0EB4,\h0EBC>>, <<\h0EC6,\h0EC6>>, <<\h0EC8,\h0ECE>>,
      <<\h0F18,\h0F19>>, <<\h0F35,\h0F35>>, <<\h0F37,\h0F37>>,
      <<\h0F39,\h0F39>>, <<\h0F71,\h0F7E>>, <<\h0F80,\h0F84>>,
      <<\h0F86,\h0F87>>, <<\h0F8D,\h0F97>>, <<\h0F99,\h0FBC>>,
      <<\h0FC6,\h0FC6>>, <<\h102D,\h1030>>, <<\h1032,\h1037>>,
      <<\h1039,\h103A>>, <<\h103D,\h103E>>, <<\h1058,\h1059>>,
      <<\h105E,\h1060>>, <<\h1071,\h1074>>, <<\h1082,\h1082>>,
      <<\h1085,\h1086>>, <<\h108D,\h108D>>, <<\h109D,\h109D>>,
      <<\h10FC,\h10FC>>, <<\h135D,\h135F>>, <<\h1712,\h1714>>,
      <<\h1732,\h1733>>, <<\h1752,\h1753>>, <<\h1772,\h1773>>,
      <<\h17B4,\h17B5>>, <<\h17B7,\h17BD>>, <<\h17C6,\h17C6>>,
      <<\h17C9,\h17D3>>, <<\h17D7,\h17D7>>, <<\h17DD,\h17DD>>,
      <<\h180B,\h180F>>, <<\h1843,\h1843>>, <<\h1885,\h1886>>,
      <<\h18A9,\h18A9>>, <<\h1920,\h1922>>, <<\h1927,\h1928>>,
      <<\h1932,\h1932>>, <<\h1939,\h193B>>, <<\h1A17,\h1A18>>,
      <<\h1A1B,\h1A1B>>, <<\h1A56,\h1A56>>, <<\h1A58,\h1A5E>>,
      <<\h1A60,\h1A60>>, <<\h1A62,\h1A62>>, <<\h1A65,\h1A6C>>,
      <<\h1A73,\h1A7C>>, <<\h1A7F,\h1A7F>>, <<\h1AA7,\h1AA7>>,
      <<\h1AB0,\h1ADD>>, <<\h1AE0,\h1AEB>>, <<\h1B00,\h1B03>>,
      <<\h1B34,\h1B34>>, <<\h1B36,\h1B3A>>, <<\h1B3C,\h1B3C>>,
      <<\h1B42,\h1B42>>, <<\h1B6B,\h1B73>>, <<\h1B80,\h1B81>>,
      <<\h1BA2,\h1BA5>>, <<\h1BA8,\h1BA9>>, <<\h1BAB,\h1BAD>>,
      <<\h1BE6,\h1BE6>>, <<\h1BE8,\h1BE9>>, <<\h1BED,\h1BED>>,
      <<\h1BEF,\h1BF1>>, <<\h1C2C,\h1C33>>, <<\h1C36,\h1C37>>,
      <<\h1C78,\h1C7D>>, <<\h1CD0,\h1CD2>>, <<\h1CD4,\h1CE0>>,
      <<\h1CE2,\h1CE8>>, <<\h1CED,\h1CED>>, <<\h1CF4,\h1CF4>>,
      <<\h1CF8,\h1CF9>>, <<\h1D2C,\h1D6A>>, <<\h1D78,\h1D78>>,
      <<\h1D9B,\h1DFF>>, <<\h1FBD,\h1FBD>>, <<\h1FBF,\h1FC1>>,
      <<\h1FCD,\h1FCF>>, <<\h1FDD,\h1FDF>>, <<\h1FED,\h1FEF>>,
      <<\h1FFD,\h1FFE>>, <<\h200B,\h200F>>, <<\h2018,\h2019>>,
      <<\h2024,\h2024>>, <<\h2027,\h2027>>, <<\h202A,\h202E>>,
      <<\h2060,\h2064>>, <<\h2066,\h206F>>, <<\h2071,\h2071>>,
      <<\h207F,\h207F>>, <<\h2090,\h209C>>, <<\h20D0,\h20F0>>,
      <<\h2C7C,\h2C7D>>, <<\h2CEF,\h2CF1>>, <<\h2D6F,\h2D6F>>,
      <<\h2D7F,\h2D7F>>, <<\h2DE0,\h2DFF>>, <<\h2E2F,\h2E2F>>,
      <<\h3005,\h3005>>, <<\h302A,\h302D>>, <<\h3031,\h3035>>,
      <<\h303B,\h303B>>, <<\h3099,\h309E>>, <<\h30FC,\h30FE>>,
      <<\hA015,\hA015>>, <<\hA4F8,\hA4FD>>, <<\hA60C,\hA60C>>,
      <<\hA66F,\hA672>>, <<\hA674,\hA67D>>, <<\hA67F,\hA67F>>,
      <<\hA69C,\hA69F>>, <<\hA6F0,\hA6F1>>, <<\hA700,\hA721>>,
      <<\hA770,\hA770>>, <<\hA788,\hA78A>>, <<\hA7F1,\hA7F4>>,
      <<\hA7F8,\hA7F9>>, <<\hA802,\hA802>>, <<\hA806,\hA806>>,
      <<\hA80B,\hA80B>>, <<\hA825,\hA826>>, <<\hA82C,\hA82C>>,
      <<\hA8C4,\hA8C5>>, <<\hA8E0,\hA8F1>>, <<\hA8FF,\hA8FF>>,
      <<\hA926,\hA92D>>, <<\hA947,\hA951>>, <<\hA980,\hA982>>,
      <<\hA9B3,\hA9B3>>, <<\hA9B6,\hA9B9>>, <<\hA9BC,\hA9BD>>,
      <<\hA9CF,\hA9CF>>, <<\hA9E5,\hA9E6>>, <<\hAA29,\hAA2E>>,
      <<\hAA31,\hAA32>>, <<\hAA35,\hAA36>>, <<\hAA43,\hAA43>>,
      <<\hAA4C,\hAA4C>>, <<\hAA70,\hAA70>>, <<\hAA7C,\hAA7C>>,
      <<\hAAB0,\hAAB0>>, <<\hAAB2,\hAAB4>>, <<\hAAB7,\hAAB8>>,
      <<\hAABE,\hAABF>>, <<\hAAC1,\hAAC1>>, <<\hAADD,\hAADD>>,
      <<\hAAEC,\hAAED>>, <<\hAAF3,\hAAF4>>, <<\hAAF6,\hAAF6>>,
      <<\hAB5B,\hAB5F>>, <<\hAB69,\hAB6B>>, <<\hABE5,\hABE5>>,
      <<\hABE8,\hABE8>>, <<\hABED,\hABED>>, <<\hFB1E,\hFB1E>>,
      <<\hFBB2,\hFBC2>>, <<\hFE00,\hFE0F>>, <<\hFE13,\hFE13>>,
      <<\hFE20,\hFE2F>>, <<\hFE52,\hFE52>>, <<\hFE55,\hFE55>>,
      <<\hFEFF,\hFEFF>>, <<\hFF07,\hFF07>>, <<\hFF0E,\hFF0E>>,
      <<\hFF1A,\hFF1A>>, <<\hFF3E,\hFF3E>>, <<\hFF40,\hFF40>>,
      <<\hFF70,\hFF70>>, <<\hFF9E,\hFF9F>>, <<\hFFE3,\hFFE3>>,
      <<\hFFF9,\hFFFB>>, <<\h101FD,\h101FD>>, <<\h102E0,\h102E0>>,
      <<\h10376,\h1037A>>, <<\h10780,\h10785>>, <<\h10787,\h107B0>>,
      <<\h107B2,\h107BA>>, <<\h10A01,\h10A03>>, <<\h10A05,\h10A06>>,
      <<\h10A0C,\h10A0F>>, <<\h10A38,\h10A3A>>, <<\h10A3F,\h10A3F>>,
      <<\h10AE5,\h10AE6>>, <<\h10D24,\h10D27>>, <<\h10D4E,\h10D4E>>,
      <<\h10D69,\h10D6D>>, <<\h10D6F,\h10D6F>>, <<\h10EAB,\h10EAC>>,
      <<\h10EC5,\h10EC5>>, <<\h10EFA,\h10EFF>>, <<\h10F46,\h10F50>>,
      <<\h10F82,\h10F85>>, <<\h11001,\h11001>>, <<\h11038,\h11046>>,
      <<\h11070,\h11070>>, <<\h11073,\h11074>>, <<\h1107F,\h11081>>,
      <<\h110B3,\h110B6>>, <<\h110B9,\h110BA>>, <<\h110BD,\h110BD>>,
      <<\h110C2,\h110C2>>, <<\h110CD,\h110CD>>, <<\h11100,\h11102>>,
      <<\h11127,\h1112B>>, <<\h1112D,\h11134>>, <<\h11173,\h11173>>,
      <<\h11180,\h11181>>, <<\h111B6,\h111BE>>, <<\h111C9,\h111CC>>,
      <<\h111CF,\h111CF>>, <<\h1122F,\h11231>>, <<\h11234,\h11234>>,
      <<\h11236,\h11237>>, <<\h1123E,\h1123E>>, <<\h11241,\h11241>>,
      <<\h112DF,\h112DF>>, <<\h112E3,\h112EA>>, <<\h11300,\h11301>>,
      <<\h1133B,\h1133C>>, <<\h11340,\h11340>>, <<\h11366,\h1136C>>,
      <<\h11370,\h11374>>, <<\h113BB,\h113C0>>, <<\h113CE,\h113CE>>,
      <<\h113D0,\h113D0>>, <<\h113D2,\h113D2>>, <<\h113E1,\h113E2>>,
      <<\h11438,\h1143F>>, <<\h11442,\h11444>>, <<\h11446,\h11446>>,
      <<\h1145E,\h1145E>>, <<\h114B3,\h114B8>>, <<\h114BA,\h114BA>>,
      <<\h114BF,\h114C0>>, <<\h114C2,\h114C3>>, <<\h115B2,\h115B5>>,
      <<\h115BC,\h115BD>>, <<\h115BF,\h115C0>>, <<\h115DC,\h115DD>>,
      <<\h11633,\h1163A>>, <<\h1163D,\h1163D>>, <<\h1163F,\h11640>>,
      <<\h116AB,\h116AB>>, <<\h116AD,\h116AD>>, <<\h116B0,\h116B5>>,
      <<\h116B7,\h116B7>>, <<\h1171D,\h1171D>>, <<\h1171F,\h1171F>>,
      <<\h11722,\h11725>>, <<\h11727,\h1172B>>, <<\h1182F,\h11837>>,
      <<\h11839,\h1183A>>, <<\h1193B,\h1193C>>, <<\h1193E,\h1193E>>,
      <<\h11943,\h11943>>, <<\h119D4,\h119D7>>, <<\h119DA,\h119DB>>,
      <<\h119E0,\h119E0>>, <<\h11A01,\h11A0A>>, <<\h11A33,\h11A38>>,
      <<\h11A3B,\h11A3E>>, <<\h11A47,\h11A47>>, <<\h11A51,\h11A56>>,
      <<\h11A59,\h11A5B>>, <<\h11A8A,\h11A96>>, <<\h11A98,\h11A99>>,
      <<\h11B60,\h11B60>>, <<\h11B62,\h11B64>>, <<\h11B66,\h11B66>>,
      <<\h11C30,\h11C36>>, <<\h11C38,\h11C3D>>, <<\h11C3F,\h11C3F>>,
      <<\h11C92,\h11CA7>>, <<\h11CAA,\h11CB0>>, <<\h11CB2,\h11CB3>>,
      <<\h11CB5,\h11CB6>>, <<\h11D31,\h11D36>>, <<\h11D3A,\h11D3A>>,
      <<\h11D3C,\h11D3D>>, <<\h11D3F,\h11D45>>, <<\h11D47,\h11D47>>,
      <<\h11D90,\h11D91>>, <<\h11D95,\h11D95>>, <<\h11D97,\h11D97>>,
      <<\h11DD9,\h11DD9>>, <<\h11EF3,\h11EF4>>, <<\h11F00,\h11F01>>,
      <<\h11F36,\h11F3A>>, <<\h11F40,\h11F40>>, <<\h11F42,\h11F42>>,
      <<\h11F5A,\h11F5A>>, <<\h13430,\h13440>>, <<\h13447,\h13455>>,
      <<\h1611E,\h16129>>, <<\h1612D,\h1612F>>, <<\h16AF0,\h16AF4>>,
      <<\h16B30,\h16B36>>, <<\h16B40,\h16B43>>, <<\h16D40,\h16D42>>,
      <<\h16D6B,\h16D6C>>, <<\h16F4F,\h16F4F>>, <<\h16F8F,\h16F9F>>,
      <<\h16FE0,\h16FE1>>, <<\h16FE3,\h16FE4>>, <<\h16FF2,\h16FF3>>,
      <<\h1AFF0,\h1AFF3>>, <<\h1AFF5,\h1AFFB>>, <<\h1AFFD,\h1AFFE>>,
      <<\h1BC9D,\h1BC9E>>, <<\h1BCA0,\h1BCA3>>, <<\h1CF00,\h1CF2D>>,
      <<\h1CF30,\h1CF46>>, <<\h1D167,\h1D169>>, <<\h1D173,\h1D182>>,
      <<\h1D185,\h1D18B>>, <<\h1D1AA,\h1D1AD>>, <<\h1D242,\h1D244>>,
      <<\h1DA00,\h1DA36>>, <<\h1DA3B,\h1DA6C>>, <<\h1DA75,\h1DA75>>,
      <<\h1DA84,\h1DA84>>, <<\h1DA9B,\h1DA9F>>, <<\h1DAA1,\h1DAAF>>,
      <<\h1E000,\h1E006>>, <<\h1E008,\h1E018>>, <<\h1E01B,\h1E021>>,
      <<\h1E023,\h1E024>>, <<\h1E026,\h1E02A>>, <<\h1E030,\h1E06D>>,
      <<\h1E08F,\h1E08F>>, <<\h1E130,\h1E13D>>, <<\h1E2AE,\h1E2AE>>,
      <<\h1E2EC,\h1E2EF>>, <<\h1E4EB,\h1E4EF>>, <<\h1E5EE,\h1E5EF>>,
      <<\h1E6E3,\h1E6E3>>, <<\h1E6E6,\h1E6E6>>, <<\h1E6EE,\h1E6EF>>,
      <<\h1E6F5,\h1E6F5>>, <<\h1E6FF,\h1E6FF>>, <<\h1E8D0,\h1E8D6>>,
      <<\h1E944,\h1E94B>>, <<\h1F3FB,\h1F3FF>>, <<\hE0001,\hE0001>>,
      <<\hE0020,\hE007F>>, <<\hE0100,\hE01EF>>
    }

Cased == UNION { { CodeUnits(n) : n \in r[1]..r[2] } : r \in CasedRanges }

CaseIgnorable ==
    UNION { { CodeUnits(n) : n \in r[1]..r[2] } : r \in CaseIgnorableRanges }

\* the lower case of a code point on its own
LowerOfCodePoint(u) ==
    IF u = <<CapitalDottedI>> THEN <<"i", CombiningDotAbove>>
    ELSE IF u \in DOMAIN LowerCaseMap THEN LowerCaseMap[u]
    ELSE u

\* the lower case of one code unit on its own, a string of one or two
\* characters
LowerOf(c) == LowerOfCodePoint(<<c>>)

\* a cased letter comes before position i of s, after case-ignorable
\* characters only; a character that is both is passed over
RECURSIVE CasedBefore(_, _)
CasedBefore(s, i) ==
    IF i < 1 THEN FALSE
    ELSE IF CodePointBefore(s, i) \in CaseIgnorable
    THEN CasedBefore(s, i - Len(CodePointBefore(s, i)))
    ELSE CodePointBefore(s, i) \in Cased

\* a cased letter comes from position i of s on, after case-ignorable
\* characters only; a character that is both is passed over
RECURSIVE CasedAfter(_, _)
CasedAfter(s, i) ==
    IF i > Len(s) THEN FALSE
    ELSE IF CodePointAt(s, i) \in CaseIgnorable
    THEN CasedAfter(s, i + Len(CodePointAt(s, i)))
    ELSE CodePointAt(s, i) \in Cased

\* the condition Final_Sigma on the capital sigma at position i of s
FinalSigma(s, i) == CasedBefore(s, i - 1) /\ ~CasedAfter(s, i + 1)

\* the lower case of the code point u at position i of s
LowerAt(s, i, u) ==
    IF u = <<CapitalSigma>> /\ FinalSigma(s, i) THEN <<FinalSmallSigma>>
    ELSE LowerOfCodePoint(u)

RECURSIVE LowerFrom(_, _)
LowerFrom(s, i) ==
    IF i > Len(s) THEN << >>
    ELSE LowerAt(s, i, CodePointAt(s, i))
         \o LowerFrom(s, i + Len(CodePointAt(s, i)))

\* String.prototype.toLowerCase
ToLowerCase(s) == LowerFrom(s, 1)

\* String.prototype.includes
Includes(s, p) ==
    \E i \in 0..(Len(s) - Len(p)) : SubSeq(s, i + 1, i + Len(p)) = p

\* String.prototype.startsWith
StartsWith(s, p) == Len(s) >= Len(p) /\ SubSeq(s, 1, Len(p)) = p

-----------------------------------------------------------------------------
(* JSON values: what JSON.parse returns and JSON.stringify is given. A value *)
(* is a record of its type, its text (the characters of a string, the      *)
(* decimal form of a number), and the keys and items of an object or the   *)
(* items of an array; an object keeps its keys in property order           *)

JValue(type, text, keys, items) ==
    [type |-> type, text |-> text, keys |-> keys, items |-> items]

JUndefined == JValue("undefined", << >>, << >>, << >>)

JNull == JValue("null", << >>, << >>, << >>)

JTrue == JValue("true", << >>, << >>, << >>)

JFalse == JValue("false", << >>, << >>, << >>)

JNumber(text) == JValue("number", text, << >>, << >>)

JString(text) == JValue("string", text, << >>, << >>)

JArray(items) == JValue("array", << >>, << >>, items)

JObject(keys, items) == JValue("object", << >>, keys, items)

Nullish(v) == v.type \in {"undefined", "null"}

\* ToBoolean
ToBoolean(v) ==
    /\ v.type \notin {"undefined", "null", "false"}
    /\ v.type = "number" => v.text \notin {<<"0">>, <<"N","a","N">>}
    /\ v.type = "string" => v.text # << >>

Digits == <<"0","1","2","3","4","5","6","7","8","9">>

IsDigit(c) == \E i \in 1..Len(Digits) : Digits[i] = c

DigitValue(c) == (CHOOSE i \in 1..Len(Digits) : Digits[i] = c) - 1

RECURSIVE DigitsToNat(_)
DigitsToNat(ds) ==
    IF ds = << >> THEN 0
    ELSE 10 * DigitsToNat(SubSeq(ds, 1, Len(ds) - 1)) + DigitValue(ds[Len(ds)])

RECURSIVE NatToString(_)
NatToString(n) ==
    IF n < 10 THEN <<Digits[n + 1]>>
    ELSE NatToString(n \div 10) \o <<Digits[(n % 10) + 1]>>

\* the greatest array index, 2^32 - 2
MaxIndexKey == <<"4","2","9","4","9","6","7","2","9","4">>

\* a < b for two texts of digits without leading zeros
DigitsLess(a, b) ==
    IF Len(a) # Len(b) THEN Len(a) < Len(b)
    ELSE \E i \in 1..Len(a) :
            /\ DigitValue(a[i]) < DigitValue(b[i])
            /\ \A k \in 1..(i - 1) : a[k] = b[k]

\* an array index as a property key: the canonical text of an integer
\* below 2^32 - 1
IsIndexKey(key) ==
    /\ Len(key) \in 1..10
    /\ \A i \in 1..Len(key) : IsDigit(key[i])
    /\ key[1] = "0" => Len(key) = 1
    /\ ~DigitsLess(MaxIndexKey, key)

\* the key is the index of an element of a sequence of n elements
IsElementKey(key, n) ==
    IsIndexKey(key) /\ Len(key) <= 9 /\ DigitsToNat(key) < n

HasKey(obj, key) == \E i \in 1..Len(obj.keys) : obj.keys[i] = key

KeyIndex(obj, key) == CHOOSE i \in 1..Len(obj.keys) : obj.keys[i] = key

InsertAt(s, i, e) == SubSeq(s, 1, i - 1) \o <<e>> \o SubSeq(s, i, Len(s))

RemoveAt(s, i) == SubSeq(s, 1, i - 1) \o SubSeq(s, i + 1, Len(s))

\* where a new key comes in property order: the array indices in ascending
\* order, then the other keys in the order of their creation
KeyPosition(obj, key) ==
    IF IsIndexKey(key)
    THEN 1 + Cardinality({ i \in 1..Len(obj.keys) :
                             /\ IsIndexKey(obj.keys[i])
                             /\ DigitsLess(obj.keys[i], key) })
    ELSE Len(obj.keys) + 1

\* obj[key] = value on an object
SetProp(obj, key, value) ==
    IF HasKey(obj, key)
    THEN [obj EXCEPT !.items[KeyIndex(obj, key)] = value]
    ELSE LET i == KeyPosition(obj, key)
         IN  [obj EXCEPT !.keys = InsertAt(@, i, key),
                         !.items = InsertAt(@, i, value)]

\* delete obj[key] on an object
DeleteProp(obj, key) ==
    IF HasKey(obj, key)
    THEN LET i == KeyIndex(obj, key)
         IN  [obj EXCEPT !.keys = RemoveAt(@, i), !.items = RemoveAt(@, i)]
    ELSE obj

K_length == <<"l","e","n","g","t","h">>

\* v[key] for v neither null nor undefined, on the values JSON.parse makes:
\* an own property, an element or the length of an array or of a string,
\* else undefined (the keys read at lines 181-183 and 189-190 are no members
\* of a prototype)
GetProp(v, key) ==
    IF v.type = "object"
    THEN IF HasKey(v, key) THEN v.items[KeyIndex(v, key)] ELSE JUndefined
    ELSE IF v.type = "array"
    THEN IF key = K_length THEN JNumber(NatToString(Len(v.items)))
         ELSE IF IsElementKey(key, Len(v.items))
         THEN v.items[DigitsToNat(key) + 1]
         ELSE JUndefined
    ELSE IF v.type = "string"
    THEN IF key = K_length THEN JNumber(NatToString(Len(v.text)))
         ELSE IF IsElementKey(key, Len(v.text))
         THEN JString(<<v.text[DigitsToNat(key) + 1]>>)
         ELSE JUndefined
    ELSE JUndefined

K_choices == <<"c","h","o","i","c","e","s">>

K_delta == <<"d","e","l","t","a">>

K_content == <<"c","o","n","t","e","n","t">>

K_reasoning_content ==
    <<"r","e","a","s","o","n","i","n","g","_","c","o","n","t","e","n","t">>

K_id == <<"i","d">>

K_object == <<"o","b","j","e","c","t">>

K_index == <<"i","n","d","e","x">>

K_finish_reason == <<"f","i","n","i","s","h","_","r","e","a","s","o","n">>

K_toString == <<"t","o","S","t","r","i","n","g">>

\* data.choices?.[0] for data that is not null
K_message == <<"m","e","s","s","a","g","e">>

K_role == <<"r","o","l","e">>

\* v?.[key]
OptionalProp(v, key) == IF Nullish(v) THEN JUndefined ELSE GetProp(v, key)

\* ToString of a value throws a TypeError: the toString of an object that
\* has it as an own property is no function, and valueOf gives no primitive
RECURSIVE ToStringThrows(_)
ToStringThrows(v) ==
    \/ v.type = "object" /\ HasKey(v, K_toString)
    \/ v.type = "array" /\ \E i \in 1..Len(v.items) : ToStringThrows(v.items[i])

-----------------------------------------------------------------------------
(* Static tables                                                           *)

MODEL_MAPPING ==
    (<<"g","p","t","-","3",".","5","-","t","u","r","b","o">>
         :> <<"n","v","i","d","i","a","/","l","l","a","m","a","-","3",".","1","-","n","e","m","o","t","r","o","n","-","u","l","t","r","a","-","2","5","3","b","-","v","1">>)
    @@ (<<"g","p","t","-","4">>
         :> <<"q","w","e","n","/","q","w","e","n","3","-","c","o","d","e","r","-","4","8","0","b","-","a","3","5","b","-","i","n","s","t","r","u","c","t">>)
    @@ (<<"g","p","t","-","4","-","t","u","r","b","o">>
         :> <<"m","o","o","n","s","h","o","t","a","i","/","k","i","m","i","-","k","2","-","i","n","s","t","r","u","c","t","-","0","9","0","5">>)
    @@ (<<"g","p","t","-","4","o">>
         :> <<"d","e","e","p","s","e","e","k","-","a","i","/","d","e","e","p","s","e","e","k","-","v","3",".","1">>)
    @@ (<<"c","l","a","u","d","e","-","3","-","o","p","u","s">>
         :> <<"z","-","a","i","/","g","l","m","4",".","7">>)
    @@ (<<"c","l","a","u","d","e","-","3","-","s","o","n","n","e","t">>
         :> <<"z","-","a","i","/","g","l","m","5">>)
    @@ (<<"g","e","m","i","n","i","-","p","r","o">>
         :> <<"q","w","e","n","/","q","w","e","n","3","-","n","e","x","t","-","8","0","b","-","a","3","b","-","t","h","i","n","k","i","n","g">>)

THINKING_CAPABLE_MODELS ==
    { <<"n","v","i","d","i","a","/","l","l","a","m","a","-","3",".","1","-","n","e","m","o","t","r","o","n","-","u","l","t","r","a","-","2","5","3","b","-","v","1">>,
      <<"q","w","e","n","/","q","w","e","n","3","-","2","3","5","b","-","a","2","2","b">>,
      <<"q","w","e","n","/","q","w","e","n","3","-","n","e","x","t","-","8","0","b","-","a","3","b","-","t","h","i","n","k","i","n","g">>,
      <<"q","w","e","n","/","q","w","e","n","3","-","c","o","d","e","r","-","4","8","0","b","-","a","3","5","b","-","i","n","s","t","r","u","c","t">> }

Llama405b ==
    <<"m","e","t","a","/","l","l","a","m","a","-","3",".","1","-","4","0","5","b","-","i","n","s","t","r","u","c","t">>

Llama70b ==
    <<"m","e","t","a","/","l","l","a","m","a","-","3",".","1","-","7","0","b","-","i","n","s","t","r","u","c","t">>

Llama8b ==
    <<"m","e","t","a","/","l","l","a","m","a","-","3",".","1","-","8","b","-","i","n","s","t","r","u","c","t">>

Kw_gpt4 == <<"g","p","t","-","4">>

Kw_claude_opus == <<"c","l","a","u","d","e","-","o","p","u","s">>

Kw_405b == <<"4","0","5","b">>

Kw_claude == <<"c","l","a","u","d","e">>

Kw_gemini == <<"g","e","m","i","n","i">>

Kw_70b == <<"7","0","b">>

-----------------------------------------------------------------------------
(* Model resolution                                                        *)

LookupNoAlias(model) == undefined

\* MODEL_MAPPING[model]: an own key, else a member inherited from
\* Object.prototype, else undefined
Lookup(model) ==
    IF model \in DOMAIN MODEL_MAPPING THEN MODEL_MAPPING[model]
    ELSE IF model \in ObjectPrototypeFunctions THEN InheritedFunction(model)
    ELSE IF model = <<"_","_","p","r","o","t","o","_","_">> THEN ObjectPrototype
    ELSE undefined

HasNever(m, model) == FALSE

\* verifiedModels.has(model)
Has(m, model) == model \in DOMAIN m

\* verifiedModels.get(model)
Get(m, model) == IF model \in DOMAIN m THEN m[model] ELSE undefined

\* verifiedModels.set(model, value)
Set(m, model, value) ==
    [k \in DOMAIN m \cup {model} |-> IF k = model THEN value ELSE m[k]]

FallbackSwapped(model) ==
    LET ml == ToLowerCase(model)
    IN  IF Includes(ml, Kw_claude) \/ Includes(ml, Kw_gemini) \/ Includes(ml, Kw_70b)
        THEN Llama70b
        ELSE IF Includes(ml, Kw_gpt4) \/ Includes(ml, Kw_claude_opus)
                \/ Includes(ml, Kw_405b)
             THEN Llama405b
             ELSE Llama8b

\* the fallback heuristic, for a model that has toLowerCase
Fallback(model) ==
    LET ml == ToLowerCase(model)
    IN  IF Includes(ml, Kw_gpt4) \/ Includes(ml, Kw_claude_opus)
           \/ Includes(ml, Kw_405b)
        THEN Llama405b
        ELSE IF Includes(ml, Kw_claude) \/ Includes(ml, Kw_gemini)
                \/ Includes(ml, Kw_70b)
             THEN Llama70b
             ELSE Llama8b

\* `if (!nimModel) { const ml = model.toLowerCase(); ... }`: the resolved
\* name, or a TypeError when model is not a string
ApplyFallback(model, nimModel) ==
    IF Truthy(nimModel) THEN [threw |-> FALSE, nimModel |-> nimModel]
    ELSE IF IsString(model) THEN [threw |-> FALSE, nimModel |-> Fallback(model)]
    ELSE [threw |-> TRUE, nimModel |-> nimModel]

\* validateStatus of the probe call
ProbeValidateStatus(s) == s < 500

ProbeResultAcceptsAnyResponse(model, outcome) ==
    IF outcome.kind = "response" /\ ProbeValidateStatus(outcome.status)
    THEN [nimModel |-> model, cached |-> model]
    ELSE [nimModel |-> undefined, cached |-> null]

\* what the probe leaves in the local nimModel and writes to the cache
ProbeResult(model, outcome) ==
    IF outcome.kind = "response" /\ ProbeValidateStatus(outcome.status)
    THEN IF outcome.status >= 200 /\ outcome.status < 300
         THEN [nimModel |-> model, cached |-> model]
         ELSE [nimModel |-> undefined, cached |-> null]
    ELSE [nimModel |-> undefined, cached |-> null]

-----------------------------------------------------------------------------
(* The chat-completions handler, one action per run of the event loop      *)

\* no streaming response is being transformed
NoStream ==
    /\ SHOW_REASONING = FALSE
    /\ upstream = << >>
    /\ splits = {}
    /\ pos = 0
    /\ received = << >>
    /\ buffer = << >>
    /\ reasoningStarted = FALSE
    /\ out = << >>
    /\ phase = "none"

\* no non-streaming response is being translated
NoTranslation ==
    /\ choice = [content |-> undefined, reasoning_content |-> undefined]
    /\ useThinking = FALSE
    /\ translated = undefined

MaxReq == 3

Requests == 1..MaxReq

\* an optional body field: absent, or present with a value
Absent == [present |-> FALSE, v |-> FALSE]

Present(v) == [present |-> TRUE, v |-> v]

\* an absent numeric field
AbsentNumber == [present |-> FALSE, v |-> 0]

\* the messages field: its type and, for a string or an array, its length
NoMessages == [type |-> "undefined", len |-> 0]

MessagesPool ==
    { NoMessages,
      [type |-> "string", len |-> 2],
      [type |-> "array", len |-> 0],
      [type |-> "array", len |-> 1] }

\* an alias, an unmapped name, and a body without a model field
ModelPool ==
    { <<"g","p","t","-","4">>,
      <<"m","y","-","7","0","b">>,
      undefined }

\* temperature, in hundredths: absent, 0 and 0.7
TemperaturePool == {AbsentNumber, Present(0), Present(70)}

\* max_tokens: absent, 0 and 100
MaxTokensPool == {AbsentNumber, Present(0), Present(100)}

\* the bodies of Spec: concurrent non-streaming requests
ConcurrentBodies ==
    [ model : ModelPool, messages : MessagesPool, temperature : {AbsentNumber},
      max_tokens : {AbsentNumber}, stream : {Absent} ]

\* the bodies of SpecHandler
AllBodies ==
    [ model : ModelPool \cup { <<"c","o","n","s","t","r","u","c","t","o","r">>,
                               <<"t","o","S","t","r","i","n","g">>,
                               <<"_","_","p","r","o","t","o","_","_">>,
                               <<"G","P","T","-","4","-","7","0","B">>,
                               << >> },
      messages : MessagesPool \cup { [type |-> "null", len |-> 0],
                                     [type |-> "string", len |-> 0],
                                     [type |-> "object", len |-> 1] },
      temperature : TemperaturePool,
      max_tokens : MaxTokensPool,
      stream : {Absent, Present(TRUE), Present(FALSE)} ]

\* a message of a completion with a content
Message(content) ==
    JObject(<<K_role, K_content>>,
            <<JString(<<"a","s","s","i","s","t","a","n","t">>), content>>)

Choice(message) ==
    JObject(<<K_index, K_message, K_finish_reason>>,
            <<JNumber(<<"0">>), message, JString(<<"s","t","o","p">>)>>)

Completion(choices) == JObject(<<K_choices>>, <<JArray(choices)>>)

\* response.data of a 2xx response: a completion; one whose content is a
\* number; one whose second choice has a number for content; an object
\* without choices; a completion whose choice has no message
ResponseBodies ==
    { Completion(<<Choice(Message(JString(<<"a">>)))>>),
      Completion(<<Choice(Message(JNumber(<<"5">>)))>>),
      Completion(<<Choice(Message(JString(<<"a">>))),
                   Choice(Message(JNumber(<<"5">>)))>>),
      JObject(<< >>, << >>),
      Completion(<<JObject(<<K_index>>, <<JNumber(<<"0">>)>>)>>) }

\* response.data of an error response
ErrorBody == JObject(<<<<"e","r","r","o","r">>>>, <<JString(<<"x">>)>>)

\* the outcome of an upstream call: an HTTP response with its status and
\* its parsed body, or none
Outcomes ==
    { [kind |-> "response", status |-> 200, body |-> b] : b \in ResponseBodies }
    \cup
    { [kind |-> "response", status |-> 404, body |-> ErrorBody],
      [kind |-> "response", status |-> 503, body |-> ErrorBody],
      [kind |-> "network", status |-> 0, body |-> JUndefined],
      [kind |-> "timeout", status |-> 0, body |-> JUndefined] }

ValidMessagesAllowEmpty(messages) == messages.type = "array"

\* the negation of `!messages || !Array.isArray(messages) || messages.length === 0`
ValidMessages(messages) ==
    /\ messages.type \notin {"undefined", "null"}
    /\ ~(messages.type = "string" /\ messages.len = 0)
    /\ messages.type = "array"
    /\ messages.len # 0

ENABLE_THINKING_MODE == TRUE

\* 0.85, in hundredths
DefaultTemperature == 85

DefaultMaxTokens == 16384

\* `value || fallback` for a numeric field: undefined and 0 are falsy
OrNumber(field, fallback) ==
    IF field.present /\ field.v # 0 THEN field.v ELSE fallback

\* `stream || false`
OrFalse(field) == IF field.present /\ field.v THEN TRUE ELSE FALSE

\* lines 121-122
UseThinking(nimModel) ==
    ENABLE_THINKING_MODE /\ nimModel \in THINKING_CAPABLE_MODELS

\* no upstream request built yet
NoRequest ==
    [ model |-> undefined, messages |-> NoMessages, temperature |-> 0,
      max_tokens |-> 0, stream |-> FALSE, thinking |-> FALSE ]

\* lines 126-133; thinking stands for chat_template_kwargs: {thinking: true}
NimRequest(rec, nimModel) ==
    [ model |-> nimModel,
      messages |-> rec.messages,
      temperature |-> OrNumber(rec.temperature, DefaultTemperature),
      max_tokens |-> OrNumber(rec.max_tokens, DefaultMaxTokens),
      stream |-> OrFalse(rec.stream),
      thinking |-> UseThinking(nimModel) ]

\* reply: "none" until the handler answers, then "error" (the error
\* envelope), "completion" (the translated response) or "stream";
\* status: the HTTP status once the response head is sent, 0 before
IdleRequest ==
    [ pc |-> "idle", model |-> undefined, messages |-> NoMessages,
      temperature |-> AbsentNumber, max_tokens |-> AbsentNumber,
      stream |-> Absent, nimModel |-> undefined, nimRequest |-> NoRequest,
      status |-> 0, reply |-> "none",
      nProbe |-> 0, nFull |-> 0, reads |-> 0, writes |-> 0,
      afterFirst |-> FALSE ]

\* res.status(code).json(...): the response is sent and the handler is over
Respond(rec, code, reply) ==
    [rec EXCEPT !.pc = "done", !.status = code, !.reply = reply]

OuterCatchAlways500(rec, errStatus) == Respond(rec, 500, "error")

\* the outer catch, reached before any header is sent:
\* res.status(error.response?.status || 500).json({error: ...})
OuterCatch(rec, errStatus) ==
    Respond(rec, IF errStatus # 0 THEN errStatus ELSE 500, "error")

\* the full axios.post with nimRequest; the handler then awaits it
IssueFull(rec, nimModel) ==
    [rec EXCEPT !.pc = "full", !.nimModel = nimModel,
         !.nimRequest = NimRequest(rec, nimModel), !.nFull = @ + 1]

\* the fallback block and what follows it
AfterLookup(rec, nimModel) ==
    LET f == ApplyFallback(rec.model, nimModel)
    IN  IF f.threw THEN OuterCatch([rec EXCEPT !.nimModel = f.nimModel], 0)
        ELSE IssueFull(rec, f.nimModel)

\* the handler from its entry to its first await (or its end)
Arrive(m, body) ==
    LET rec == [IdleRequest EXCEPT !.model = body.model,
                    !.messages = body.messages,
                    !.temperature = body.temperature,
                    !.max_tokens = body.max_tokens, !.stream = body.stream]
        nimModel == Lookup(body.model)
    IN  IF ~ValidMessages(body.messages) THEN Respond(rec, 400, "error")
        ELSE IF Truthy(nimModel) THEN IssueFull(rec, nimModel)
        ELSE IF Has(m, body.model)
        THEN AfterLookup([rec EXCEPT !.reads = @ + 2, !.afterFirst = TRUE],
                         Get(m, body.model))
        ELSE [rec EXCEPT !.pc = "probe", !.reads = @ + 1,
                  !.nimModel = nimModel, !.nProbe = @ + 1]

\* a request arrives; requests are numbered in their order of arrival
Start(r) ==
    /\ req[r].pc = "idle"
    /\ r <= clients
    /\ \A q \in Requests : q < r => req[q].pc # "idle"
    /\ \E body \in bodies : req' = [req EXCEPT ![r] = Arrive(verifiedModels, body)]
    /\ UNCHANGED <<verifiedModels, bodies, clients, fallbackVars, streamVars,
                   translateVars>>

\* the probe settles: its result is cached, then resolution finishes
ProbeDone(r) ==
    /\ req[r].pc = "probe"
    /\ \E outcome \in Outcomes :
        LET p == ProbeResult(req[r].model, outcome)
            rec == [req[r] EXCEPT !.writes = @ + 1,
                        !.afterFirst = Has(verifiedModels, req[r].model)]
        IN  /\ verifiedModels' = Set(verifiedModels, req[r].model, p.cached)
            /\ req' = [req EXCEPT ![r] = AfterLookup(rec, p.nimModel)]
    /\ UNCHANGED <<bodies, clients, fallbackVars, streamVars, translateVars>>

\* `value || ''`
OrEmptyString(v) == IF ToBoolean(v) THEN v ELSE JString(<< >>)

\* lines 244-249: rawContent.includes and rawContent.substring throw a
\* TypeError on a content that is truthy and no string
DebugLogThrows(rawContent) == ToBoolean(rawContent) /\ rawContent.type # "string"

\* line 262: content.includes('<think>') and content.match(...) throw a
\* TypeError on a content that has no includes, and on an array that
\* includes '<think>', which has no match
ThinkTestThrows(content) ==
    IF content.type = "string" THEN FALSE
    ELSE IF content.type = "array"
    THEN \E i \in 1..Len(content.items) :
            content.items[i] = JString(<<"<","t","h","i","n","k",">">>)
    ELSE TRUE

\* lines 258-287 throw a TypeError on a choice with the message, content
\* and reasoning
ChoiceFieldsThrow(message, content, reasoning, thinking) ==
    \/ ~thinking /\ ~ToBoolean(reasoning) /\ ThinkTestThrows(content)
    \/ /\ SHOW_REASONING /\ ToBoolean(reasoning)
       /\ ToStringThrows(reasoning) \/ ToStringThrows(content)
    \/ Nullish(message)

\* the callback of choices.map throws a TypeError on a choice
ChoiceThrows(c, thinking) ==
    \/ Nullish(c)
    \/ ChoiceFieldsThrow(GetProp(c, K_message),
           OrEmptyString(OptionalProp(GetProp(c, K_message), K_content)),
           OrEmptyString(OptionalProp(GetProp(c, K_message),
                                      K_reasoning_content)),
           thinking)

\* lines 244-300 throw a TypeError on choices, response.data.choices
ChoicesThrow(choices, thinking) ==
    \/ /\ ~Nullish(choices)
       /\ DebugLogThrows(OptionalProp(OptionalProp(GetProp(choices, <<"0">>),
                                                   K_message), K_content))
    \/ choices.type # "array"
    \/ \E i \in 1..Len(choices.items) : ChoiceThrows(choices.items[i], thinking)

\* lines 244-300 throw a TypeError on response.data
TranslationThrows(data, thinking) ==
    Nullish(data) \/ ChoicesThrow(GetProp(data, K_choices), thinking)

SettleWithRetry(rec, outcome) ==
    IF outcome.kind = "response" /\ outcome.status >= 200
       /\ outcome.status < 300
    THEN IF rec.stream.present /\ rec.stream.v
         THEN [rec EXCEPT !.pc = "streaming", !.reply = "stream"]
         ELSE IF ~TranslationThrows(outcome.body, rec.nimRequest.thinking)
         THEN Respond(rec, 200, "completion")
         ELSE OuterCatch(rec, 0)
    ELSE IF rec.nFull < 2 THEN IssueFull(rec, rec.nimModel)
    ELSE OuterCatch(rec, outcome.status)

\* the full call settles: a 2xx response is piped or translated, anything
\* else is thrown to the outer catch; a TypeError thrown while the body is
\* translated has no response
Settle(rec, outcome) ==
    IF outcome.kind = "response" /\ outcome.status >= 200
       /\ outcome.status < 300
    THEN IF rec.stream.present /\ rec.stream.v
         THEN [rec EXCEPT !.pc = "streaming", !.reply = "stream"]
         ELSE IF ~TranslationThrows(outcome.body, rec.nimRequest.thinking)
         THEN Respond(rec, 200, "completion")
         ELSE OuterCatch(rec, 0)
    ELSE OuterCatch(rec, outcome.status)

-----------------------------------------------------------------------------
(* The fallback heuristic on its own: names are built from fragments, so   *)
(* that a keyword may be met whole, in upper case, or across a boundary,   *)
(* and a capital sigma at the end of a word, inside one, after a           *)
(* case-ignorable character or on its own                                  *)

MaxFrags == 3

Fragments ==
    { <<"g","p","t","-","4">>,
      <<"G","P","T","-","4">>,
      <<"g","p","t","-">>,
      <<"4">>,
      <<"c","l","a","u","d","e">>,
      <<"C","l","a","u","d","e">>,
      <<"-","o","p","u","s">>,
      <<"g","e","m","i","n","i">>,
      <<"7","0","b">>,
      <<"7","0","B">>,
      <<"4","0","5","b">>,
      <<"x","-">>,
      <<"G","E","M","I","N">>,
      <<CapitalDottedI>>,
      <<"U+00C9","C","O","L","E","-">>,
      <<CapitalSigma>>,
      <<LaoYamakkan>> }

RECURSIVE Concat(_)
Concat(fs) == IF fs = << >> THEN << >> ELSE Head(fs) \o Concat(Tail(fs))

FallbackNames ==
    { Concat(fs) : fs \in UNION { [1..n -> Fragments] : n \in 0..MaxFrags } }

\* resolution of fbName came out null (a failed probe, or null from the
\* cache) and the fallback block runs
ResolveNone ==
    /\ fbModel = << >>
    /\ fbModel' = ApplyFallback(fbName, null).nimModel
    /\ UNCHANGED <<handlerVars, fbName, streamVars, translateVars>>

InitFallback ==
    /\ verifiedModels = << >>
    /\ req = [r \in Requests |-> IdleRequest]
    /\ bodies = {}
    /\ clients = 0
    /\ fbName \in FallbackNames
    /\ fbModel = << >>
    /\ NoStream
    /\ NoTranslation

NextFallback == ResolveNone

SpecFallback == InitFallback /\ [][NextFallback]_vars

-----------------------------------------------------------------------------
(* The stream transformer (server.js:148-239)                              *)
(*                                                                         *)
(* The upstream response is a sequence of bytes, delivered in chunks.  An  *)
(* ASCII byte is written as its character; "0xC3" "0xA9" are the two bytes *)
(* of the character "U+00E9"; a character outside ASCII that is already   *)
(* decoded is written by its code point.  A run of JSON punctuation and    *)
(* keys (T_open, T_rc, ...) that only JSON.parse reads is one symbol,      *)
(* which JSON.parse reads character by character; the operations on lines *)
(* (split, startsWith, includes, the two regular expressions) see every    *)
(* framing character one by one.                                           *)

LeadByte == "0xC3"

ContinuationByte == "0xA9"

TwoByteChar == "U+00E9"

ReplacementChar == "U+FFFD"

\* chunk.toString(): UTF-8 decoding of this chunk alone; a sequence cut by
\* the chunk's end, and a continuation byte without its lead byte, each
\* decode to the replacement character
RECURSIVE ChunkToString(_)
ChunkToString(chunk) ==
    IF chunk = << >> THEN << >>
    ELSE IF Head(chunk) = LeadByte
    THEN IF Len(chunk) >= 2 /\ chunk[2] = ContinuationByte
         THEN <<TwoByteChar>> \o ChunkToString(SubSeq(chunk, 3, Len(chunk)))
         ELSE <<ReplacementChar>> \o ChunkToString(Tail(chunk))
    ELSE IF Head(chunk) = ContinuationByte
    THEN <<ReplacementChar>> \o ChunkToString(Tail(chunk))
    ELSE <<Head(chunk)>> \o ChunkToString(Tail(chunk))

DataPrefix == <<"d","a","t","a",":">>

DoneToken == <<"[","D","O","N","E","]">>

OpenMarker == <<"<","t","h","i","n","k",">","\n">>

CloseMarker == <<"<","/","t","h","i","n","k",">","\n","\n">>

\* what \s of a regular expression matches and String.prototype.trim
\* removes: the white space and the line terminators of the language
WhiteSpace ==
    { " ", "\t", "\n", "\r", "\f", "U+000B", "U+00A0", "U+1680",
      "U+2000", "U+2001", "U+2002", "U+2003", "U+2004", "U+2005", "U+2006",
      "U+2007", "U+2008", "U+2009", "U+200A", "U+2028", "U+2029", "U+202F",
      "U+205F", "U+3000", "U+FEFF" }

\* buffer.split('\n')
RECURSIVE Split(_)
Split(s) ==
    IF \E i \in 1..Len(s) : s[i] = NL
    THEN LET i == CHOOSE j \in 1..Len(s) :
                      s[j] = NL /\ \A k \in 1..(j - 1) : s[k] # NL
         IN  <<SubSeq(s, 1, i - 1)>> \o Split(SubSeq(s, i + 1, Len(s)))
    ELSE <<s>>

\* lines.pop() || ''
HeldBack(lines) == lines[Len(lines)]

\* rawLine.replace(/\r$/, '')
StripTrailingCR(rawLine) ==
    IF Len(rawLine) > 0 /\ rawLine[Len(rawLine)] = CR
    THEN SubSeq(rawLine, 1, Len(rawLine) - 1)
    ELSE rawLine

RECURSIVE DropLeadingWs(_)
DropLeadingWs(s) ==
    IF Len(s) > 0 /\ s[1] \in WhiteSpace THEN DropLeadingWs(Tail(s)) ELSE s

RECURSIVE DropTrailingWs(_)
DropTrailingWs(s) ==
    IF Len(s) > 0 /\ s[Len(s)] \in WhiteSpace
    THEN DropTrailingWs(SubSeq(s, 1, Len(s) - 1))
    ELSE s

\* line.replace(/^data:\s*/, '') on a line that starts with 'data:'
StripDataPrefix(line) ==
    IF StartsWith(line, DataPrefix)
    THEN DropLeadingWs(SubSeq(line, Len(DataPrefix) + 1, Len(line)))
    ELSE line

(* JSON.parse *)

\* the white space of the JSON grammar
JsonWhiteSpace == {" ", TAB, NL, CR}

HexLower == <<"0","1","2","3","4","5","6","7","8","9","a","b","c","d","e","f">>

IsHexDigit(c) ==
    \E i \in 1..16 : HexUpper[i] = c \/ HexLower[i] = c

HexValue(c) == (CHOOSE i \in 1..16 : HexUpper[i] = c \/ HexLower[i] = c) - 1

\* U+0000 to U+001F, which a JSON string holds only escaped
ControlCharacters == { CodeUnit(n) : n \in 0..31 }

ParseFailure == [ok |-> FALSE, next |-> 0, value |-> JNull]

Parsed(value, next) == [ok |-> TRUE, next |-> next, value |-> value]

RECURSIVE SkipWs(_, _)
SkipWs(cs, i) ==
    IF i <= Len(cs) /\ cs[i] \in JsonWhiteSpace THEN SkipWs(cs, i + 1) ELSE i

At(cs, i, word) ==
    i + Len(word) - 1 <= Len(cs) /\ SubSeq(cs, i, i + Len(word) - 1) = word

RECURSIVE DigitsEnd(_, _)
DigitsEnd(cs, i) ==
    IF i <= Len(cs) /\ IsDigit(cs[i]) THEN DigitsEnd(cs, i + 1) ELSE i

Zeros(n) == [i \in 1..n |-> "0"]

RECURSIVE DropLeadingZeros(_)
DropLeadingZeros(ds) ==
    IF ds # << >> /\ ds[1] = "0" THEN DropLeadingZeros(Tail(ds)) ELSE ds

RECURSIVE DropTrailingZeros(_)
DropTrailingZeros(ds) ==
    IF ds # << >> /\ ds[Len(ds)] = "0"
    THEN DropTrailingZeros(SubSeq(ds, 1, Len(ds) - 1))
    ELSE ds

\* the text Number::toString gives the number with the decimal digits ds
\* and the decimal point after the n-th of them
DecimalToString(ds, n) ==
    LET k == Len(ds)
    IN  IF k <= n /\ n <= 21 THEN ds \o Zeros(n - k)
        ELSE IF 0 < n /\ n <= 21
        THEN SubSeq(ds, 1, n) \o <<".">> \o SubSeq(ds, n + 1, k)
        ELSE IF -6 < n /\ n <= 0 THEN <<"0", ".">> \o Zeros(-n) \o ds
        ELSE (IF k = 1 THEN ds ELSE <<ds[1], ".">> \o SubSeq(ds, 2, k))
             \o <<"e", IF n - 1 < 0 THEN "-" ELSE "+">>
             \o NatToString(IF n - 1 < 0 THEN 1 - n ELSE n - 1)

(* Natural numbers of any size: the limbs of a number in base 10^4, the    *)
(* least significant first, without high zero limbs                        *)

Base == 10^4

Limb(a, i) == IF i >= 1 /\ i <= Len(a) THEN a[i] ELSE 0

\* s without its high zero limbs
Normalized(s) ==
    SubSeq(s, 1, CHOOSE n \in 0..Len(s) :
                    /\ n = 0 \/ s[n] # 0
                    /\ \A k \in (n + 1)..Len(s) : s[k] = 0)

\* the carry into limb i of the limbs s, each below twice the base
CarryInto(s, i) ==
    IF \E j \in 1..(i - 1) :
          s[j] >= Base /\ \A k \in (j + 1)..(i - 1) : s[k] = Base - 1
    THEN 1 ELSE 0

Carried(s) ==
    [ i \in 1..(Len(s) + CarryInto(s, Len(s) + 1)) |->
        (Limb(s, i) + CarryInto(s, i)) % Base ]

LongerLen(a, b) == IF Len(a) > Len(b) THEN Len(a) ELSE Len(b)

Add(a, b) == Carried([ i \in 1..LongerLen(a, b) |-> Limb(a, i) + Limb(b, i) ])

BorrowInto(a, b, i) ==
    IF \E j \in 1..(i - 1) :
          /\ Limb(a, j) < Limb(b, j)
          /\ \A k \in (j + 1)..(i - 1) : Limb(a, k) = Limb(b, k)
    THEN 1 ELSE 0

\* a - b, for a >= b
Sub(a, b) ==
    Normalized([ i \in 1..Len(a) |->
                   (Base + Limb(a, i) - Limb(b, i) - BorrowInto(a, b, i)) % Base ])

Less(a, b) ==
    IF Len(a) # Len(b) THEN Len(a) < Len(b)
    ELSE \E i \in 1..Len(a) :
            a[i] < b[i] /\ \A k \in (i + 1)..Len(a) : a[k] = b[k]

Odd(a) == Len(a) > 0 /\ a[1] % 2 = 1

\* a * k, for k in 0..Base
MulSmall(a, k) ==
    Normalized(Carried([ i \in 1..(Len(a) + 1) |->
                           ((Limb(a, i) * k) % Base)
                           + ((Limb(a, i - 1) * k) \div Base) ]))

\* a * Base^n
ShiftLimbs(a, n) == IF Len(a) = 0 THEN a ELSE [i \in 1..n |-> 0] \o a

\* a times the limbs lo..hi of b, each at its place
RECURSIVE MulRange(_, _, _, _)
MulRange(a, b, lo, hi) ==
    IF lo = hi THEN ShiftLimbs(MulSmall(a, b[lo]), lo - 1)
    ELSE Add(MulRange(a, b, lo, (lo + hi) \div 2),
             MulRange(a, b, ((lo + hi) \div 2) + 1, hi))

Mul(a, b) == IF Len(b) = 0 THEN b ELSE MulRange(a, b, 1, Len(b))

Square(a) == Mul(a, a)

RECURSIVE Pow2(_)
Pow2(k) ==
    IF k <= 13 THEN <<2^k>>
    ELSE MulSmall(Square(Pow2(k \div 2)), 1 + (k % 2))

TimesPow2(a, k) == IF k <= 13 THEN MulSmall(a, 2^k) ELSE Mul(a, Pow2(k))

TimesPow10(a, k) == ShiftLimbs(MulSmall(a, 10^(k % 4)), k \div 4)

\* the number of decimal digits of a
NumDigits(a) ==
    IF Len(a) = 0 THEN 0
    ELSE (4 * (Len(a) - 1)) + Len(NatToString(a[Len(a)]))

\* the number written with the decimal digits ds
Natural(ds) ==
    Normalized([ i \in 1..((Len(ds) + 3) \div 4) |->
                   DigitsToNat(SubSeq(ds,
                       IF Len(ds) - (4 * i) + 1 < 1 THEN 1 ELSE Len(ds) - (4 * i) + 1,
                       Len(ds) - (4 * (i - 1)))) ])

\* the greatest d in 0..9 with d * b <= a, for a < 10 * b
QuotientDigit(a, b) ==
    CHOOSE d \in 0..9 :
        ~Less(a, MulSmall(b, d)) /\ (d = 9 \/ Less(a, MulSmall(b, d + 1)))

\* the long division of a by b from the digit of 10^j down: the decimal
\* digits of the quotient and the remainder
RECURSIVE DivideFrom(_, _, _, _)
DivideStep(a, b, j, acc, d) ==
    DivideFrom(Sub(a, MulSmall(TimesPow10(b, j), d)), b, j - 1,
               Append(acc, Digits[d + 1]))

DivideFrom(a, b, j, acc) ==
    IF j < 0 THEN [quotient |-> Natural(acc), remainder |-> a]
    ELSE DivideStep(a, b, j, acc, QuotientDigit(a, TimesPow10(b, j)))

Divide(a, b) == DivideFrom(a, b, NumDigits(a) - NumDigits(b), << >>)

(* Number values: a double is a sign, a significand m and an exponent q,   *)
(* for m * 2^q, with m = 0 or 2^52 <= m < 2^53 or q = -1074; or an        *)
(* infinity; or NaN.  The two zeros are one value here: neither            *)
(* JSON.stringify nor ToString nor ToBoolean tells them apart, and no sum  *)
(* of the program has a zero for operand                                   *)

MinExponent == -1074

MaxExponent == 971

TwoTo52 == Pow2(52)

TwoTo53 == Pow2(53)

Finite(negative, m, q) ==
    [class |-> "finite", negative |-> negative, m |-> m, q |-> q]

Infinite(negative) ==
    [class |-> "infinite", negative |-> negative, m |-> << >>, q |-> 0]

NaN == [class |-> "nan", negative |-> FALSE, m |-> << >>, q |-> 0]

Zero == Finite(FALSE, << >>, 0)

\* a lower bound of the floor of the binary logarithm of 10^t, at most
\* two below it
Log2Pow10(t) ==
    IF t >= 0 THEN (t * 3321) \div 1000 ELSE 0 - (((0 - t) * 3322 + 999) \div 1000)

\* the double of the significand m at the exponent q, after rounding
Rounded(negative, m, q) ==
    IF Len(m) = 0 THEN Zero
    ELSE IF m = TwoTo53
    THEN IF q + 1 > MaxExponent THEN Infinite(negative)
         ELSE Finite(negative, TwoTo52, q + 1)
    ELSE IF q > MaxExponent THEN Infinite(negative)
    ELSE Finite(negative, m, q)

\* round to nearest, ties to even: the quotient qr of a division by b
RoundedQuotient(negative, qr, b, q) ==
    IF \/ Less(b, Add(qr.remainder, qr.remainder))
       \/ Add(qr.remainder, qr.remainder) = b /\ Odd(qr.quotient)
    THEN Rounded(negative, Add(qr.quotient, <<1>>), q)
    ELSE Rounded(negative, qr.quotient, q)

\* the least x with a / b < 2^(53 + x), for t = b * 2^53
ExcessBits(a, t) ==
    CHOOSE x \in 0..12 :
        /\ Less(a, MulSmall(t, 2^x))
        /\ x = 0 \/ ~Less(a, MulSmall(t, 2^(x - 1)))

\* the double nearest to a / b * 2^q, where a / b < 2^(53 + x)
RoundedAt(negative, a, b, q, x) ==
    RoundedQuotient(negative, Divide(a, MulSmall(b, 2^x)), MulSmall(b, 2^x),
                    q + x)

\* the double nearest to a / b * 2^q, where a / b < 2^65 and either
\* a / b >= 2^52 or q = -1074
RoundedFrom(negative, a, b, q) ==
    RoundedAt(negative, a, b, q, ExcessBits(a, Mul(b, TwoTo53)))

\* the double nearest to n / d, with the exponent q to start from
RoundedRatioAt(negative, n, d, q) ==
    RoundedFrom(negative,
                IF q < 0 THEN TimesPow2(n, -q) ELSE n,
                IF q > 0 THEN TimesPow2(d, q) ELSE d,
                q)

\* the double nearest to n / d, for n > 0
RoundedRatio(negative, n, d) ==
    RoundedRatioAt(negative, n, d,
        IF Log2Pow10(NumDigits(n) - NumDigits(d) - 1) - 52 < MinExponent
        THEN MinExponent
        ELSE Log2Pow10(NumDigits(n) - NumDigits(d) - 1) - 52)

\* the double nearest to the decimal of the digits ds, without leading
\* zeros, times 10^e
ToDouble(negative, ds, e) ==
    IF Len(ds) = 0 THEN Zero
    ELSE IF Len(ds) + e > 309 THEN Infinite(negative)
    ELSE IF Len(ds) + e < -323 THEN Zero
    ELSE IF e >= 0
    THEN RoundedRatio(negative, TimesPow10(Natural(ds), e), <<1>>)
    ELSE RoundedRatio(negative, Natural(ds), TimesPow10(<<1>>, -e))

(* Number::toString: the shortest decimal that the double is the nearest   *)
(* to, and of these the nearest to the double.  r / s is what is left of   *)
(* the double, below one unit of the last digit; mplus / s and mminus / s  *)
(* are half the distances to the next doubles above and below               *)

\* the next digit is d and rem / s is left: the digits end here when the
\* decimal so far, or the one above it, is read back as the double
RECURSIVE DigitsFrom(_, _, _, _, _, _)
NextDigit(rem, s, mplus, mminus, even, acc, d) ==
    LET low == IF even THEN ~Less(mminus, rem) ELSE Less(rem, mminus)
        high == IF even THEN ~Less(Add(rem, mplus), s)
                ELSE Less(s, Add(rem, mplus))
    IN  IF ~low /\ ~high
        THEN DigitsFrom(rem, s, mplus, mminus, even, Append(acc, Digits[d + 1]))
        ELSE IF low /\ (~high \/ Less(Add(rem, rem), s))
        THEN Append(acc, Digits[d + 1])
        ELSE Append(acc, Digits[d + 2])

DigitsFrom(r, s, mplus, mminus, even, acc) ==
    NextDigit(Sub(MulSmall(r, 10), MulSmall(s, QuotientDigit(MulSmall(r, 10), s))),
               s, MulSmall(mplus, 10), MulSmall(mminus, 10), even, acc,
               QuotientDigit(MulSmall(r, 10), s))

\* the digits and the place n of the decimal point, for the scale k
ShortestAt(r, s, mplus, mminus, even, k) ==
    [ digits |-> DigitsFrom(IF k < 0 THEN TimesPow10(r, -k) ELSE r,
                            IF k > 0 THEN TimesPow10(s, k) ELSE s,
                            IF k < 0 THEN TimesPow10(mplus, -k) ELSE mplus,
                            IF k < 0 THEN TimesPow10(mminus, -k) ELSE mminus,
                            even, << >>),
      n |-> k ]

\* high / s reaches 10^k
Reaches(high, s, k, even) ==
    IF even
    THEN ~Less(IF k < 0 THEN TimesPow10(high, -k) ELSE high,
               IF k > 0 THEN TimesPow10(s, k) ELSE s)
    ELSE Less(IF k > 0 THEN TimesPow10(s, k) ELSE s,
              IF k < 0 THEN TimesPow10(high, -k) ELSE high)

ShortestFrom(r, s, mplus, mminus, even, k) ==
    ShortestAt(r, s, mplus, mminus, even,
               IF Reaches(Add(r, mplus), s, k, even) THEN k + 1 ELSE k)

\* the digits and the place of the decimal point, for what is left at the
\* start
ShortestScaled(r, s, mplus, mminus, even) ==
    ShortestFrom(r, s, mplus, mminus, even,
                 NumDigits(Add(r, mplus)) - NumDigits(s))

\* for the double m * 2^q with the unit u (2 where the double below is
\* nearer than the one above, else 1), p = 2^q or 1 for q < 0, and
\* d = 2^-q or 1 for q > 0
ShortestOf(m, u, p, d, even) ==
    ShortestScaled(MulSmall(Mul(m, p), 2 * u), MulSmall(d, 2 * u),
                   MulSmall(p, u), p, even)

Shortest(m, q) ==
    ShortestOf(m, IF m = TwoTo52 /\ q > MinExponent THEN 2 ELSE 1,
               IF q > 0 THEN Pow2(q) ELSE <<1>>,
               IF q < 0 THEN Pow2(-q) ELSE <<1>>, ~Odd(m))

\* Number::toString
FiniteText(negative, shortest) ==
    (IF negative THEN <<"-">> ELSE << >>)
    \o DecimalToString(shortest.digits, shortest.n)

NumberText(x) ==
    IF x.class = "nan" THEN <<"N","a","N">>
    ELSE IF x.class = "infinite"
    THEN (IF x.negative THEN <<"-">> ELSE << >>)
         \o <<"I","n","f","i","n","i","t","y">>
    ELSE IF Len(x.m) = 0 THEN <<"0">>
    ELSE FiniteText(x.negative, Shortest(x.m, x.q))

\* the exact value n * 2^q, rounded
Exact(negative, n, q) ==
    IF Len(n) = 0 THEN Zero
    ELSE RoundedRatio(negative, IF q > 0 THEN TimesPow2(n, q) ELSE n,
                      IF q < 0 THEN Pow2(-q) ELSE <<1>>)

\* the sum of the doubles a * 2^q, negative if an, and b * 2^q, negative
\* if bn
AlignedSum(an, a, bn, b, q) ==
    IF an = bn THEN Exact(an, Add(a, b), q)
    ELSE IF Less(a, b) THEN Exact(bn, Sub(b, a), q)
    ELSE Exact(an, Sub(a, b), q)

FiniteSum(x, y, q) ==
    AlignedSum(x.negative, TimesPow2(x.m, x.q - q),
               y.negative, TimesPow2(y.m, y.q - q), q)

\* x + y on doubles
SumOf(x, y) ==
    IF x.class = "nan" \/ y.class = "nan" THEN NaN
    ELSE IF x.class = "infinite"
    THEN IF y.class = "infinite" /\ y.negative # x.negative THEN NaN ELSE x
    ELSE IF y.class = "infinite" THEN y
    ELSE IF Len(x.m) = 0 THEN y
    ELSE IF Len(y.m) = 0 THEN x
    ELSE FiniteSum(x, y, IF x.q < y.q THEN x.q ELSE y.q)

\* the end of the fraction that may start at position b
FractionEnd(cs, b) ==
    IF b <= Len(cs) /\ cs[b] = "." THEN DigitsEnd(cs, b + 1) ELSE b

\* the first digit of the exponent that may start at position c, after its
\* letter and its sign; c where no exponent starts
ExponentDigits(cs, c) ==
    IF c <= Len(cs) /\ cs[c] \in {"e", "E"}
    THEN IF c + 1 <= Len(cs) /\ cs[c + 1] \in {"+", "-"} THEN c + 2 ELSE c + 1
    ELSE c

\* the exponent written with the digits ds
Magnitude(ds) == IF Len(ds) > 6 THEN 1000000 ELSE DigitsToNat(ds)

\* the double of the number literal with its integer digits from a to
\* b - 1, its fraction from b + 1 to c - 1 and the digits of its exponent
\* from s to d - 1
LiteralDouble(cs, i, a, b, c, s, d) ==
    ToDouble(a > i,
             DropLeadingZeros(SubSeq(cs, a, b - 1) \o SubSeq(cs, b + 1, c - 1)),
             (IF s = c + 2 /\ cs[c + 1] = "-" THEN -1 ELSE 1)
             * Magnitude(DropLeadingZeros(SubSeq(cs, s, d - 1)))
             - (IF c > b THEN c - b - 1 ELSE 0))

\* the number literal, if it is one
NumberLiteral(cs, i, a, b, c, s, d) ==
    IF /\ b > a
       /\ cs[a] = "0" => b = a + 1
       /\ c > b => c > b + 1
       /\ s > c => d > s
    THEN Parsed(JNumber(NumberText(LiteralDouble(cs, i, a, b, c, s, d))), d)
    ELSE ParseFailure

\* a number literal from position i on
ParseNumber(cs, i) ==
    LET a == IF cs[i] = "-" THEN i + 1 ELSE i
        b == DigitsEnd(cs, a)
        c == FractionEnd(cs, b)
        s == ExponentDigits(cs, c)
    IN  NumberLiteral(cs, i, a, b, c, s, DigitsEnd(cs, s))

\* the double of a text of Number::toString that is a decimal
DecimalDouble(cs) ==
    LET a == IF cs[1] = "-" THEN 2 ELSE 1
        b == DigitsEnd(cs, a)
        c == FractionEnd(cs, b)
        s == ExponentDigits(cs, c)
    IN  LiteralDouble(cs, 1, a, b, c, s, DigitsEnd(cs, s))

\* the character an escape stands for, and the number of characters of the
\* escape after its backslash (0: no escape)
Escape(cs, i) ==
    IF i > Len(cs) THEN [length |-> 0, char |-> ""]
    ELSE IF cs[i] \in {Quote, Backslash, "/"} THEN [length |-> 1, char |-> cs[i]]
    ELSE IF cs[i] = "b" THEN [length |-> 1, char |-> CodeUnit(8)]
    ELSE IF cs[i] = "f" THEN [length |-> 1, char |-> FF]
    ELSE IF cs[i] = "n" THEN [length |-> 1, char |-> NL]
    ELSE IF cs[i] = "r" THEN [length |-> 1, char |-> CR]
    ELSE IF cs[i] = "t" THEN [length |-> 1, char |-> TAB]
    ELSE IF /\ cs[i] = "u"
            /\ i + 4 <= Len(cs)
            /\ \A j \in (i + 1)..(i + 4) : IsHexDigit(cs[j])
    THEN [length |-> 5,
          char |-> CodeUnit(4096 * HexValue(cs[i + 1]) + 256 * HexValue(cs[i + 2])
                            + 16 * HexValue(cs[i + 3]) + HexValue(cs[i + 4]))]
    ELSE [length |-> 0, char |-> ""]

\* a string literal from the character after its opening quote on
RECURSIVE ParseString(_, _, _)

\* the rest of a string literal after the escape e at position i
ParseEscaped(cs, i, acc, e) ==
    IF e.length = 0 THEN ParseFailure
    ELSE ParseString(cs, i + 1 + e.length, Append(acc, e.char))

ParseString(cs, i, acc) ==
    IF i > Len(cs) THEN ParseFailure
    ELSE IF cs[i] = Quote THEN Parsed(JString(acc), i + 1)
    ELSE IF cs[i] \in ControlCharacters THEN ParseFailure
    ELSE IF cs[i] = Backslash THEN ParseEscaped(cs, i, acc, Escape(cs, i + 1))
    ELSE ParseString(cs, i + 1, Append(acc, cs[i]))

RECURSIVE ParseValue(_, _)
RECURSIVE ParseElements(_, _, _)
RECURSIVE ParseMembers(_, _, _)

\* a value from position i0 on, after white space
ParseValue(cs, i0) ==
    LET i == SkipWs(cs, i0)
    IN  IF i > Len(cs) THEN ParseFailure
        ELSE IF cs[i] = "{"
        THEN LET j == SkipWs(cs, i + 1)
             IN  IF j <= Len(cs) /\ cs[j] = "}"
                 THEN Parsed(JObject(<< >>, << >>), j + 1)
                 ELSE ParseMembers(cs, j, JObject(<< >>, << >>))
        ELSE IF cs[i] = "["
        THEN LET j == SkipWs(cs, i + 1)
             IN  IF j <= Len(cs) /\ cs[j] = "]"
                 THEN Parsed(JArray(<< >>), j + 1)
                 ELSE ParseElements(cs, j, << >>)
        ELSE IF cs[i] = Quote THEN ParseString(cs, i + 1, << >>)
        ELSE IF At(cs, i, <<"t","r","u","e">>) THEN Parsed(JTrue, i + 4)
        ELSE IF At(cs, i, <<"f","a","l","s","e">>) THEN Parsed(JFalse, i + 5)
        ELSE IF At(cs, i, <<"n","u","l","l">>) THEN Parsed(JNull, i + 4)
        ELSE ParseNumber(cs, i)

\* the array after its element e, which ends before position j
ParseElement(cs, acc, e, j) ==
    IF ~e.ok \/ j > Len(cs) THEN ParseFailure
    ELSE IF cs[j] = "," THEN ParseElements(cs, j + 1, Append(acc, e.value))
    ELSE IF cs[j] = "]" THEN Parsed(JArray(Append(acc, e.value)), j + 1)
    ELSE ParseFailure

\* the elements of an array from position i on, after those of acc
ParseElements(cs, i, acc) ==
    LET e == ParseValue(cs, i)
    IN  ParseElement(cs, acc, e, SkipWs(cs, e.next))

\* the object after its member: the key from position q on, the colon at
\* position colon, the value member, which ends before position j, and the
\* object obj1 that holds the member
ParseMember(cs, q, key, colon, member, j, obj1) ==
    IF q > Len(cs) \/ cs[q] # Quote THEN ParseFailure
    ELSE IF ~key.ok \/ colon > Len(cs) THEN ParseFailure
    ELSE IF cs[colon] # ":" THEN ParseFailure
    ELSE IF ~member.ok \/ j > Len(cs) THEN ParseFailure
    ELSE IF cs[j] = "," THEN ParseMembers(cs, j + 1, obj1)
    ELSE IF cs[j] = "}" THEN Parsed(obj1, j + 1)
    ELSE ParseFailure

\* the members of an object from position i on, after those of obj; a key
\* met again keeps its place and takes the later value
ParseMembers(cs, i, obj) ==
    LET q == SkipWs(cs, i)
        key == ParseString(cs, q + 1, << >>)
        colon == SkipWs(cs, key.next)
        member == ParseValue(cs, colon + 1)
    IN  ParseMember(cs, q, key, colon, member, SkipWs(cs, member.next),
                    SetProp(obj, key.value.text, member.value))

(* The payload texts of the line pools. A run of characters that no chunk  *)
(* boundary of the pools cuts is written as one symbol, which stands for   *)
(* its characters                                                          *)

T_open == "{\"choices\":[{\"delta\":{"

T_full == "{\"id\":\"x\",\"object\":\"chat.completion.chunk\",\"choices\":[{\"index\":0,\"finish_reason\":null,\"delta\":{"

T_rc == "\"reasoning_content\":"

T_c == "\"content\":"

T_next == "}},{\"delta\":{"

T_close == "}}]}"

T_null == "null"

\* the characters of each run
Runs ==
    (T_open :>
        <<"{","\"","c","h","o","i","c","e","s","\"",":","[","{","\"","d",
          "e","l","t","a","\"",":","{">>)
    @@ (T_full :>
        <<"{","\"","i","d","\"",":","\"","x","\"",",","\"","o","b","j","e",
          "c","t","\"",":","\"","c","h","a","t",".","c","o","m","p","l","e",
          "t","i","o","n",".","c","h","u","n","k","\"",",","\"","c","h","o",
          "i","c","e","s","\"",":","[","{","\"","i","n","d","e","x","\"",
          ":","0",",","\"","f","i","n","i","s","h","_","r","e","a","s","o",
          "n","\"",":","n","u","l","l",",","\"","d","e","l","t","a","\"",
          ":","{">>)
    @@ (T_rc :>
        <<"\"","r","e","a","s","o","n","i","n","g","_","c","o","n","t","e",
          "n","t","\"",":">>)
    @@ (T_c :>
        <<"\"","c","o","n","t","e","n","t","\"",":">>)
    @@ (T_next :>
        <<"}","}",",","{","\"","d","e","l","t","a","\"",":","{">>)
    @@ (T_close :>
        <<"}","}","]","}">>)
    @@ (T_null :>
        <<"n","u","l","l">>)

\* a text character by character
RECURSIVE Characters(_)
Characters(text) ==
    IF text = << >> THEN << >>
    ELSE (IF Head(text) \in DOMAIN Runs THEN Runs[Head(text)] ELSE <<Head(text)>>)
         \o Characters(Tail(text))

Str(cs) == <<Quote>> \o cs \o <<Quote>>

J_ra == <<T_open, T_rc>> \o Str(<<"a">>) \o <<T_close>>

J_rb == <<T_open, T_rc>> \o Str(<<"b">>) \o <<T_close>>

J_cc == <<T_open, T_c>> \o Str(<<"c">>) \o <<T_close>>

J_both == <<T_open, T_rc>> \o Str(<<"a">>) \o <<",", T_c>> \o Str(<<"c">>) \o <<T_close>>

J_cnull == <<T_open, T_c, T_null, ",", T_rc>> \o Str(<<"a">>) \o <<T_close>>

J_empty == <<T_open, T_close>>

J_two == <<T_open, T_c>> \o Str(<<"c">>) \o <<T_next, T_rc>> \o Str(<<"b">>) \o <<T_close>>

J_full == <<T_full, T_c>> \o Str(<<"c">>) \o <<T_close>>

J_doneText == <<T_open, T_c>> \o Str(DoneToken) \o <<T_close>>

J_e == <<T_open, T_c>> \o Str(<<TwoByteChar>>) \o <<T_close>>

J_eBroken == <<T_open, T_c>> \o Str(<<ReplacementChar, ReplacementChar>>) \o <<T_close>>

\* J_e as the upstream sends it
J_eBytes == <<T_open, T_c>> \o Str(<<LeadByte, ContinuationByte>>) \o <<T_close>>

J_null == <<T_null>>

J_one == <<"1">>

\* a payload with no choice
J_noChoices == <<"{", Quote, "c","h","o","i","c","e","s", Quote, ":", "[", "]", "}">>

\* a payload cut off after its first run
J_cut == <<T_open>>

\* the payload texts of the pools
PayloadTexts ==
    { J_ra, J_rb, J_cc, J_both, J_cnull, J_empty, J_two, J_full, J_doneText,
      J_e, J_eBroken, J_null, J_one, J_noChoices, J_cut }

\* the grammar on a whole text: one value between white space
WholeText(cs, r) ==
    IF r.ok /\ SkipWs(cs, r.next) = Len(cs) + 1
    THEN [ok |-> TRUE, data |-> r.value]
    ELSE [ok |-> FALSE, data |-> JNull]

ParseText(jsonStr) ==
    WholeText(Characters(jsonStr), ParseValue(Characters(jsonStr), 1))

\* ParseText on the payload texts of the pools, computed once
ParsedPayloads == [text \in PayloadTexts |-> ParseText(text)]

\* JSON.parse(jsonStr): the value, or a SyntaxError
ParseJSON(jsonStr) ==
    IF jsonStr \in PayloadTexts THEN ParsedPayloads[jsonStr]
    ELSE ParseText(jsonStr)

(* The operations of lines 181-220 on parsed values *)

FirstChoice(data) == OptionalProp(GetProp(data, K_choices), <<"0">>)

\* data.choices?.[0]?.delta for data that is not null
FirstDelta(data) == OptionalProp(FirstChoice(data), K_delta)

\* data.choices[0].delta = delta, where data.choices[0] is an object
\* choices[0] = first on an array that has a first element, or on an object
SetFirst(choices, first) ==
    IF choices.type = "array" THEN [choices EXCEPT !.items[1] = first]
    ELSE SetProp(choices, <<"0">>, first)

SetFirstDelta(data, delta) ==
    SetProp(data, K_choices,
            SetFirst(GetProp(data, K_choices),
                     SetProp(FirstChoice(data), K_delta, delta)))

\* ToString of a value
RECURSIVE ToStringJS(_)
RECURSIVE Join(_)
ToStringJS(v) ==
    IF v.type \in {"string", "number"} THEN v.text
    ELSE IF v.type = "array" THEN Join(v.items)
    ELSE IF v.type = "object"
    THEN <<"[","o","b","j","e","c","t"," ","O","b","j","e","c","t","]">>
    ELSE IF v.type = "true" THEN <<"t","r","u","e">>
    ELSE IF v.type = "false" THEN <<"f","a","l","s","e">>
    ELSE IF v.type = "null" THEN <<"n","u","l","l">>
    ELSE <<"u","n","d","e","f","i","n","e","d">>

\* Array.prototype.join with the separator ','
Join(items) ==
    IF items = << >> THEN << >>
    ELSE (IF Nullish(items[1]) THEN << >> ELSE ToStringJS(items[1]))
         \o (IF Len(items) > 1 THEN <<",">> \o Join(Tail(items)) ELSE << >>)

\* ToNumber of true, false or a number
ToNumber(v) ==
    IF v.type = "true" THEN Finite(FALSE, TwoTo52, -52)
    ELSE IF v.type = "false" THEN Zero
    ELSE IF v.text = <<"N","a","N">> THEN NaN
    ELSE IF v.text = <<"I","n","f","i","n","i","t","y">> THEN Infinite(FALSE)
    ELSE IF v.text = <<"-","I","n","f","i","n","i","t","y">> THEN Infinite(TRUE)
    ELSE DecimalDouble(v.text)

\* a + b on true, false and numbers
Sum(a, b) == JNumber(NumberText(SumOf(ToNumber(a), ToNumber(b))))

\* a + b where neither is null or undefined: a concatenation when either is
\* a string, an object or an array, else a sum
Plus(a, b) ==
    IF ToStringThrows(a) \/ ToStringThrows(b)
    THEN [threw |-> TRUE, value |-> JUndefined]
    ELSE IF a.type \in {"string", "object", "array"}
            \/ b.type \in {"string", "object", "array"}
    THEN [threw |-> FALSE, value |-> JString(ToStringJS(a) \o ToStringJS(b))]
    ELSE [threw |-> FALSE, value |-> Sum(a, b)]

\* what JSON.stringify writes of a value, as the value a reader gets: a
\* number that is not finite is written null
RECURSIVE Stringify(_)
Stringify(v) ==
    IF v.type = "number"
    THEN IF v.text \in { <<"N","a","N">>, <<"I","n","f","i","n","i","t","y">>,
                         <<"-","I","n","f","i","n","i","t","y">> }
         THEN JNull ELSE v
    ELSE IF v.type \in {"array", "object"}
    THEN [v EXCEPT !.items = [i \in 1..Len(v.items) |-> Stringify(v.items[i])]]
    ELSE v

(* res.write(`data: ${payload}\n\n`): one written event *)

JsonEvent(data) == [done |-> FALSE, data |-> Stringify(data)]

DoneEvent == [done |-> TRUE, data |-> JNull]

\* { content: '</think>\n\n' }
CloseDelta == JObject(<<K_content>>, <<JString(CloseMarker)>>)

\* the closing marker synthesized before [DONE] and at 'end'
CloseEvent ==
    JsonEvent(JObject(<<K_choices>>,
        <<JArray(<<JObject(<<K_index, K_delta>>,
                           <<JNumber(<<"0">>), CloseDelta>>)>>)>>))

\* an object literal as JSON.stringify writes it: a property whose value is
\* undefined is left out
Defined(keys, items) ==
    LET kept == { i \in 1..Len(keys) : items[i].type # "undefined" }
        RECURSIVE Pick(_)
        Pick(i) == IF i > Len(keys) THEN JObject(<< >>, << >>)
                   ELSE IF i \in kept
                   THEN LET rest == Pick(i + 1)
                        IN  JObject(<<keys[i]>> \o rest.keys,
                                    <<items[i]>> \o rest.items)
                   ELSE Pick(i + 1)
    IN  Pick(1)

\* the closing marker synthesized before a content delta
CloseEventFor(data) ==
    JsonEvent(Defined(<<K_id, K_object, K_choices>>,
        <<GetProp(data, K_id), GetProp(data, K_object),
          JArray(<<JObject(<<K_index, K_delta, K_finish_reason>>,
                           <<JNumber(<<"0">>), CloseDelta, JNull>>)>>)>>))

Write(st, event) == [st EXCEPT !.out = Append(@, event)]

\* lines 196-200: combinedContent after the reasoning, and whether the
\* concatenation threw
Combined(opening, reasoning) ==
    IF opening THEN Plus(JString(OpenMarker), reasoning)
    ELSE IF ToBoolean(reasoning) THEN [threw |-> FALSE, value |-> reasoning]
    ELSE [threw |-> FALSE, value |-> JString(<< >>)]

\* lines 202-204: combinedContent += content
AddContent(combined, content) ==
    IF ~combined.threw /\ ToBoolean(content)
    THEN Plus(combined.value, content) ELSE combined

\* lines 207-213: the content the delta gets
Merged(closeFirst, started, total, content) ==
    IF SHOW_REASONING
    THEN [ closeFirst |-> closeFirst, reasoningStarted |-> started,
           content |-> total.value, threw |-> total.threw ]
    ELSE [ closeFirst |-> FALSE, reasoningStarted |-> started,
           content |-> IF ToBoolean(content) THEN content ELSE JString(<< >>),
           threw |-> FALSE ]

MergeInline(started, reasoning, content, closing, opening) ==
    LET combined == IF closing
                    THEN [threw |-> FALSE, value |-> JString(CloseMarker)]
                    ELSE Combined(opening, reasoning)
    IN  Merged(FALSE,
               IF ~SHOW_REASONING THEN started
               ELSE IF closing THEN FALSE
               ELSE IF opening /\ ~combined.threw THEN TRUE
               ELSE started,
               AddContent(combined, content), content)

MergeDeltaInline(started, delta) ==
    LET reasoning == GetProp(delta, K_reasoning_content)
        content == GetProp(delta, K_content)
    IN  MergeInline(started, reasoning, content,
                    started /\ ~ToBoolean(reasoning) /\ ToBoolean(content),
                    ToBoolean(reasoning) /\ ~started)

\* lines 184-206 on the reasoning and the content of the delta
MergeFields(started, reasoning, content, closeFirst, opening) ==
    LET combined == Combined(opening, reasoning)
    IN  Merged(closeFirst,
               IF ~SHOW_REASONING THEN started
               ELSE IF opening /\ ~combined.threw THEN TRUE
               ELSE IF closeFirst THEN FALSE
               ELSE started,
               AddContent(combined, content), content)

\* lines 182-215: whether a closing-marker event is written first, the new
\* reasoningStarted, the content the forwarded delta gets, and whether a
\* concatenation threw before the content was set
MergeDelta(started, delta) ==
    LET reasoning == GetProp(delta, K_reasoning_content)
        content == GetProp(delta, K_content)
        closeFirst == started /\ ~ToBoolean(reasoning) /\ ToBoolean(content)
    IN  MergeFields(started, reasoning, content, closeFirst,
                    ToBoolean(reasoning) /\ (closeFirst \/ ~started))

\* data.choices?.[0]?.delta is truthy
HasFirstDelta(data) == ToBoolean(FirstDelta(data))

\* lines 207-213: the delta after its content is set and its
\* reasoning_content deleted; on a delta that is no object (an array, a
\* string, a number, true) neither changes what JSON.stringify writes
SetContent(delta, content) ==
    IF delta.type = "object"
    THEN DeleteProp(SetProp(delta, K_content, content), K_reasoning_content)
    ELSE delta

\* lines 181-220 for a parsed value that is not null
\* lines 184-220 for the truthy delta of the first choice of data, merged
\* as m
ForwardDelta(st, data, delta, m) ==
    LET st1 == IF m.closeFirst THEN Write(st, CloseEventFor(data)) ELSE st
        st2 == [st1 EXCEPT !.reasoningStarted = m.reasoningStarted]
    IN  IF m.threw THEN st2
        ELSE Write(st2, JsonEvent(SetFirstDelta(data,
                                                SetContent(delta, m.content))))

\* lines 181-220 for a parsed value that is not null
Forward(st, data) ==
    IF HasFirstDelta(data)
    THEN ForwardDelta(st, data, FirstDelta(data),
                      MergeDelta(st.reasoningStarted, FirstDelta(data)))
    ELSE Write(st, JsonEvent(data))

OnParseErrorReset(st) == [st EXCEPT !.reasoningStarted = FALSE]

\* the catch block: console.warn, nothing else
OnParseError(st) == st

\* the body of lines.forEach for one raw line
\* lines 180-223 on what JSON.parse gave: a value, or a SyntaxError
OnParsed(st, parsed) ==
    IF ~parsed.ok THEN OnParseError(st)
    ELSE IF parsed.data.type = "null" THEN OnParseError(st)
    ELSE Forward(st, parsed.data)

\* lines 166-177: the line is '[DONE]'
OnDone(st) ==
    IF SHOW_REASONING /\ st.reasoningStarted
    THEN Write([Write(st, CloseEvent) EXCEPT !.reasoningStarted = FALSE],
               DoneEvent)
    ELSE Write(st, DoneEvent)

\* lines 163-223 for a line without its trailing carriage return
ProcessData(st, line) ==
    IF ~StartsWith(line, DataPrefix) THEN st
    ELSE IF Includes(line, DoneToken) THEN OnDone(st)
    ELSE OnParsed(st, ParseJSON(StripDataPrefix(line)))

\* the body of lines.forEach for one raw line
ProcessLine(st, rawLine) == ProcessData(st, StripTrailingCR(rawLine))

RECURSIVE ForEach(_, _)
ForEach(st, lines) ==
    IF lines = << >> THEN st
    ELSE ForEach(ProcessLine(st, Head(lines)), Tail(lines))

\* lines 158-224 once the chunk is a string: st holds buffer,
\* reasoningStarted and out
AppendText(st, text) ==
    LET lines == Split(st.buffer \o text)
    IN  [ForEach(st, SubSeq(lines, 1, Len(lines) - 1))
            EXCEPT !.buffer = HeldBack(lines)]

\* response.data.on('data')
OnData(st, chunk) == AppendText(st, ChunkToString(chunk))

OnEndSilent(st) == st

\* response.data.on('end'), up to res.end()
OnEnd(st) ==
    IF SHOW_REASONING /\ st.reasoningStarted THEN Write(st, CloseEvent) ELSE st

StreamState == [buffer |-> buffer, reasoningStarted |-> reasoningStarted, out |-> out]

\* lines 154-155
FreshState == [buffer |-> << >>, reasoningStarted |-> FALSE, out |-> << >>]

(* the inputs *)

MaxLines == 2

MaxDeltas == 3

DataLine(payload) == DataPrefix \o <<" ">> \o payload \o <<NL>>

DoneLine == DataLine(DoneToken)

MalformedLine == DataLine(J_cut)

\* pieces of upstream text cut at any character: lines, a line without its
\* line break, framing variants
Pieces ==
    { DataLine(J_ra),
      DataPrefix \o <<FF>> \o J_cc \o <<CR, NL>>,
      DoneLine,
      <<NL>>,
      DataLine(J_doneText),
      DataLine(J_eBytes),
      DataPrefix \o <<" ">> \o DoneToken }

\* a line that is no data line
CommentLine == <<":", " ", "a", NL>>

\* whole lines of every shape, delivered line by line
DeltaLines ==
    { DataLine(J_ra), DataLine(J_cc), DataLine(J_both), DataLine(J_cnull),
      DataLine(J_empty), DataLine(J_two), DataLine(J_full), DataLine(J_null),
      DataLine(J_one), DataLine(J_noChoices),
      DataPrefix \o <<"U+00A0">> \o J_cc \o <<NL>>,
      DoneLine, MalformedLine, CommentLine }

\* the lines of a reasoning section and of what ends or disturbs it,
\* delivered line by line
SectionLines ==
    { DataLine(J_ra), DataLine(J_rb), DataLine(J_cc), DataLine(J_both),
      DoneLine, MalformedLine }

Streams(pool, n) == { Concat(ls) : ls \in UNION { [1..k -> pool] : k \in 0..n } }

LineEnds(s) == { i \in 1..Len(s) : s[i] = NL }

\* a streaming request as the handler leaves it at line 153
StreamingRequest ==
    Settle(Arrive(<< >>, [model |-> <<"g","p","t","-","4">>,
                          messages |-> [type |-> "array", len |-> 1],
                          temperature |-> AbsentNumber,
                          max_tokens |-> AbsentNumber,
                          stream |-> Present(TRUE)]),
           [kind |-> "response", status |-> 200, body |-> JUndefined])

InitStream ==
    /\ verifiedModels = << >>
    /\ req = [r \in Requests |-> IF r = 1 THEN StreamingRequest ELSE IdleRequest]
    /\ bodies = {}
    /\ clients = 0
    /\ fbName = << >>
    /\ fbModel = << >>
    /\ SHOW_REASONING \in BOOLEAN
    /\ \/ upstream \in Streams(Pieces, MaxLines) /\ splits = 1..Len(upstream)
       \/ upstream \in Streams(DeltaLines, MaxLines) /\ splits = LineEnds(upstream)
       \/ upstream \in Streams(SectionLines, MaxDeltas) /\ splits = LineEnds(upstream)
    /\ pos = 0
    /\ received = << >>
    /\ buffer = FreshState.buffer
    /\ reasoningStarted = FreshState.reasoningStarted
    /\ out = FreshState.out
    /\ phase = "streaming"
    /\ NoTranslation

\* res.write of the events st holds: the first write sends the response
\* head, with the status code 200 that nothing has changed
HeadSent(rec, st) ==
    IF rec.status = 0 /\ Len(st.out) > 0 THEN [rec EXCEPT !.status = 200] ELSE rec

\* res.end(): the head is sent if it was not, and the response is over
ResEnd(rec) == [rec EXCEPT !.pc = "done", !.status = 200]

OnErrorFlush(st) == Write(OnEnd(st), DoneEvent)

\* response.data.on('error'), up to res.end(): console.error, nothing else
OnError(st) == st

\* a chunk arrives: the upstream text up to a later cut
DataEvent(r) ==
    /\ req[r].pc = "streaming"
    /\ phase = "streaming"
    /\ \E q \in splits \cup {Len(upstream)} :
        /\ q > pos
        /\ \E st \in {OnData(StreamState, SubSeq(upstream, pos + 1, q))} :
               /\ buffer' = st.buffer
               /\ reasoningStarted' = st.reasoningStarted
               /\ out' = st.out
               /\ req' = [req EXCEPT ![r] = HeadSent(@, st)]
        /\ received' = received \o ChunkToString(SubSeq(upstream, pos + 1, q))
        /\ pos' = q
    /\ UNCHANGED <<verifiedModels, bodies, clients, fallbackVars, translateVars,
                   SHOW_REASONING, upstream, splits, phase>>

\* the upstream response completes
EndEvent(r) ==
    /\ req[r].pc = "streaming"
    /\ phase = "streaming"
    /\ pos = Len(upstream)
    /\ out' = OnEnd(StreamState).out
    /\ phase' = "ended"
    /\ req' = [req EXCEPT ![r] = ResEnd(@)]
    /\ UNCHANGED <<verifiedModels, bodies, clients, fallbackVars, translateVars,
                   SHOW_REASONING, upstream, splits, pos, received, buffer,
                   reasoningStarted>>

\* the upstream response fails
ErrorEvent(r) ==
    /\ req[r].pc = "streaming"
    /\ phase = "streaming"
    /\ out' = OnError(StreamState).out
    /\ phase' = "errored"
    /\ req' = [req EXCEPT ![r] = ResEnd(@)]
    /\ UNCHANGED <<verifiedModels, bodies, clients, fallbackVars, translateVars,
                   SHOW_REASONING, upstream, splits, pos, received, buffer,
                   reasoningStarted>>

NextStream ==
    \/ \E r \in Requests : DataEvent(r)
    \/ \E r \in Requests : EndEvent(r)
    \/ \E r \in Requests : ErrorEvent(r)

SpecStream == InitStream /\ [][NextStream]_vars

-----------------------------------------------------------------------------
(* Specifications of the handler                                           *)

MaxHandlerLines == 2

\* what the upstream of a streaming request of SpecHandler sends
HandlerStreams == Streams({DataLine(J_cc), DoneLine}, MaxHandlerLines)

\* lines 150-155: the stream of the full call's response starts
BeginStream ==
    /\ upstream' \in HandlerStreams
    /\ splits' = LineEnds(upstream')
    /\ pos' = 0
    /\ received' = << >>
    /\ buffer' = FreshState.buffer
    /\ reasoningStarted' = FreshState.reasoningStarted
    /\ out' = FreshState.out
    /\ phase' = "streaming"
    /\ UNCHANGED SHOW_REASONING

FullDone(r) ==
    /\ req[r].pc = "full"
    /\ \E outcome \in Outcomes :
        /\ req' = [req EXCEPT ![r] = Settle(req[r], outcome)]
        /\ IF Settle(req[r], outcome).pc = "streaming"
           THEN BeginStream
           ELSE UNCHANGED streamVars
    /\ UNCHANGED <<verifiedModels, bodies, clients, fallbackVars, translateVars>>

Init ==
    /\ verifiedModels = << >>
    /\ req = [r \in Requests |-> IdleRequest]
    /\ bodies = ConcurrentBodies
    /\ clients = MaxReq
    /\ fbName = << >>
    /\ fbModel = << >>
    /\ NoStream
    /\ NoTranslation

InitHandler ==
    /\ verifiedModels = << >>
    /\ req = [r \in Requests |-> IdleRequest]
    /\ bodies = AllBodies
    /\ clients = 1
    /\ fbName = << >>
    /\ fbModel = << >>
    /\ NoStream
    /\ NoTranslation

Next ==
    \/ \E r \in Requests : Start(r)
    \/ \E r \in Requests : ProbeDone(r)
    \/ \E r \in Requests : FullDone(r)

NextHandler == Next \/ NextStream

Spec == Init /\ [][Next]_vars

SpecHandler == InitHandler /\ [][NextHandler]_vars

-----------------------------------------------------------------------------
(* The non-streaming translation of one choice (server.js:258-295)         *)

ThinkTagOpen == <<"<","t","h","i","n","k",">">>

ThinkTagClose == <<"<","/","t","h","i","n","k",">">>

\* '\n</think>\n\n'
ClosingBracket == <<NL>> \o ThinkTagClose \o <<NL, NL>>

\* `value || ''`
OrEmpty(v) == IF Truthy(v) THEN v ELSE << >>

\* String.prototype.trim
Trim(s) == DropTrailingWs(DropLeadingWs(s))

\* the least index from `from` on at which p occurs in s, 0 if there is none
RECURSIVE IndexOf(_, _, _)
IndexOf(s, p, from) ==
    IF from + Len(p) - 1 > Len(s) THEN 0
    ELSE IF SubSeq(s, from, from + Len(p) - 1) = p THEN from
    ELSE IndexOf(s, p, from + 1)

\* the greatest such index, 0 if there is none
RECURSIVE LastIndexOf(_, _, _)
LastIndexOf(s, p, from) ==
    LET i == IndexOf(s, p, from)
    IN  IF i = 0 THEN 0
        ELSE IF LastIndexOf(s, p, i + 1) = 0 THEN i
        ELSE LastIndexOf(s, p, i + 1)

ThinkMatchGreedy(content) ==
    LET i == LastIndexOf(content, ThinkTagClose, Len(ThinkTagOpen) + 1)
    IN  IF StartsWith(content, ThinkTagOpen) /\ i # 0
        THEN [ matched |-> TRUE,
               g1 |-> SubSeq(content, Len(ThinkTagOpen) + 1, i - 1),
               g2 |-> DropLeadingWs(SubSeq(content, i + Len(ThinkTagClose),
                                           Len(content))) ]
        ELSE [matched |-> FALSE, g1 |-> << >>, g2 |-> << >>]

\* content.match(/^<think>([\s\S]*?)<\/think>\s*([\s\S]*)$/): the lazy
\* group ends at the first closing tag, \s* takes the white space after it
ThinkMatch(content) ==
    LET i == IndexOf(content, ThinkTagClose, Len(ThinkTagOpen) + 1)
    IN  IF StartsWith(content, ThinkTagOpen) /\ i # 0
        THEN [ matched |-> TRUE,
               g1 |-> SubSeq(content, Len(ThinkTagOpen) + 1, i - 1),
               g2 |-> DropLeadingWs(SubSeq(content, i + Len(ThinkTagClose),
                                           Len(content))) ]
        ELSE [matched |-> FALSE, g1 |-> << >>, g2 |-> << >>]

\* the callback of response.data.choices.map: the content of the choice of
\* openaiResponse, for a message with these content and reasoning_content
MapChoice(message, thinking) ==
    LET content == OrEmpty(message.content)
        reasoning == OrEmpty(message.reasoning_content)
        thinkMatch == ThinkMatch(content)
    IN  IF ~thinking /\ ~Truthy(reasoning) /\ Includes(content, ThinkTagOpen)
           /\ thinkMatch.matched
        THEN LET extractedReasoning == Trim(thinkMatch.g1)
                 extractedContent == Trim(thinkMatch.g2)
             IN  IF SHOW_REASONING
                 THEN OpenMarker \o extractedReasoning \o ClosingBracket
                      \o extractedContent
                 ELSE extractedContent
        ELSE IF SHOW_REASONING /\ Truthy(reasoning)
             THEN OpenMarker \o reasoning \o ClosingBracket \o content
             ELSE content

MaxParts == 4

\* contents are built from parts, so that a tag may be met whole, twice,
\* or across a boundary, with white space around the texts
ContentParts ==
    { ThinkTagOpen,
      ThinkTagClose,
      <<NL>>,
      <<FF, "U+00A0">>,
      <<" ", "x">>,
      <<"y", " ">>,
      <<"<", "/">>,
      <<"t","h","i","n","k",">">> }

Contents ==
    { Concat(ps) : ps \in UNION { [1..n -> ContentParts] : n \in 0..MaxParts } }

\* the choice is translated
Translate ==
    /\ translated = undefined
    /\ translated' = MapChoice(choice, useThinking)
    /\ UNCHANGED <<handlerVars, fallbackVars, streamVars, choice, useThinking>>

InitTranslate ==
    /\ verifiedModels = << >>
    /\ req = [r \in Requests |-> IdleRequest]
    /\ bodies = {}
    /\ clients = 0
    /\ fbName = << >>
    /\ fbModel = << >>
    /\ SHOW_REASONING \in BOOLEAN
    /\ upstream = << >>
    /\ splits = {}
    /\ pos = 0
    /\ received = << >>
    /\ buffer = << >>
    /\ reasoningStarted = FALSE
    /\ out = << >>
    /\ phase = "none"
    /\ choice \in [ content : Contents \cup {undefined, null},
                    reasoning_content : {undefined, <<"r">>} ]
    /\ useThinking \in BOOLEAN
    /\ translated = undefined

NextTranslate == Translate

SpecTranslate == InitTranslate /\ [][NextTranslate]_vars

-----------------------------------------------------------------------------
(* Claims                                                                  *)

IsAlias(model) == model \in DOMAIN MODEL_MAPPING

\* messages is missing, not an array, or an empty array
BadMessages(messages) ==
    \/ messages.type = "undefined"
    \/ messages.type # "array"
    \/ messages.type = "array" /\ messages.len = 0

\* the request carried usable messages and its resolution is over
Resolved(r) ==
    /\ req[r].pc \in {"full", "streaming", "done"}
    /\ ~BadMessages(req[r].messages)

\* C1: a request whose model is a key of the alias table resolves to the
\* mapped backend name, issues no probe and neither reads nor writes the
\* resolution cache, whatever the cache holds and whatever other requests
\* are in flight.
C1_AliasNeverProbes ==
    \A r \in Requests :
        Resolved(r) /\ IsAlias(req[r].model) =>
            /\ req[r].nimModel = MODEL_MAPPING[req[r].model]
            /\ req[r].nProbe = 0
            /\ req[r].reads = 0
            /\ req[r].writes = 0

\* an alias was resolved while the cache held an entry and another request
\* had its probe in flight
C1_Witness ==
    \E r, q \in Requests :
        /\ Resolved(r) /\ IsAlias(req[r].model) /\ req[r].nFull = 1
        /\ req[q].pc = "probe"
        /\ DOMAIN verifiedModels # {}

\* C2: whenever a request issues a probe, its model name is not a key of the
\* resolution cache at that moment; a handler that starts after the first
\* write for a name never probes that name.
C2_NoProbeOnceCached ==
    [][\A r \in Requests :
          req'[r].nProbe > req[r].nProbe =>
              ~(req'[r].model \in DOMAIN verifiedModels)]_vars

\* a request was served from the cache, without a probe, while an older
\* request for the same name still had its probe in flight
C2_Witness ==
    \E r, q \in Requests :
        /\ q < r
        /\ req[q].pc = "probe"
        /\ req[r].model = req[q].model
        /\ Resolved(r) /\ req[r].reads = 2 /\ req[r].nProbe = 0
        /\ req[r].model \in DOMAIN verifiedModels

\* C3: any two resolutions of one unmapped name that both took place after
\* the name was first written to the cache returned the same backend name.
C3_IdempotentAfterFirstCaching ==
    \A r, q \in Requests :
        /\ Resolved(r) /\ Resolved(q)
        /\ req[r].nFull = 1 /\ req[q].nFull = 1
        /\ req[r].model = req[q].model
        /\ req[r].afterFirst /\ req[q].afterFirst
        => req[r].nimModel = req[q].nimModel

FallbackModels == {Llama405b, Llama70b, Llama8b}

\* an alias target, the public name itself, or a fallback model
ConcreteBackend(model, nimModel) ==
    \/ IsAlias(model) /\ nimModel = MODEL_MAPPING[model]
    \/ IsString(model) /\ model # << >> /\ nimModel = model
    \/ nimModel \in FallbackModels

\* C4: every request that passed validation ends resolution with a concrete
\* backend name and issues the full upstream call, whatever its model value
\* and whatever the probe outcome.
C4_ResolutionNeverFails ==
    \A r \in Requests :
        Resolved(r) =>
            /\ req[r].nFull = 1
            /\ ConcreteBackend(req[r].model, req[r].nimModel)

\* the keywords of the two upper tiers
LargeTier == {Kw_gpt4, Kw_claude_opus, Kw_405b}

MidTier == {Kw_claude, Kw_gemini, Kw_70b}

HasAny(s, kws) == \E k \in kws : Includes(s, k)

\* C5: when resolution is None the fallback is decided on the lowercased
\* name: a largest-tier keyword wins even when a mid-tier keyword is present
\* too, otherwise a mid-tier keyword gives the mid-tier model, otherwise the
\* smallest-tier model is used.
C5_FallbackPriority ==
    fbModel # << >> =>
        LET ml == ToLowerCase(fbName)
        IN  /\ HasAny(ml, LargeTier) => fbModel = Llama405b
            /\ ~HasAny(ml, LargeTier) /\ HasAny(ml, MidTier) => fbModel = Llama70b
            /\ ~HasAny(ml, LargeTier) /\ ~HasAny(ml, MidTier) => fbModel = Llama8b

\* "GPT-4" in upper case, then "70b", then a capital sigma, which ends the
\* word and is lowered to the final small sigma: the name fell back to the
\* largest tier
C5_Witness ==
    /\ fbModel = Llama405b
    /\ fbName = <<"G","P","T","-","4","7","0","b",CapitalSigma>>
    /\ ToLowerCase(fbName) = <<"g","p","t","-","4","7","0","b",FinalSmallSigma>>

\* C6: a request whose messages field is missing, not an array or an empty
\* array is answered 400 at once: it issues no probe and no full call and
\* neither reads nor writes the resolution cache.
C6_InvalidMessagesRejected ==
    \A r \in Requests :
        req[r].pc # "idle" /\ BadMessages(req[r].messages) =>
            /\ req[r].pc = "done"
            /\ req[r].status = 400
            /\ req[r].nProbe = 0
            /\ req[r].nFull = 0
            /\ req[r].reads = 0
            /\ req[r].writes = 0

\* an empty messages array was rejected for an unmapped name while the cache
\* already held that name, and the entry is still there
C6_Witness ==
    \E r \in Requests :
        /\ req[r].pc = "done" /\ req[r].status = 400
        /\ req[r].messages = [type |-> "array", len |-> 0]
        /\ req[r].model \in DOMAIN verifiedModels

\* the upstream text delivered so far
Delivered == SubSeq(upstream, 1, pos)

\* C7: however the upstream response is cut into chunks, the transformer
\* is in the state, and has written the events, that one chunk holding the
\* same bytes would have produced; at the end of the stream the output
\* equals the output for the whole response delivered as one chunk.
C7_ChunkBoundaryIndependence ==
    /\ phase = "streaming" => StreamState = OnData(FreshState, Delivered)
    /\ phase = "ended" => out = OnEnd(OnData(FreshState, upstream)).out

\* no chunk so far ended inside a character
CutsBetweenCharacters == received = ChunkToString(Delivered)

\* the same, for the chunkings that cut the response between characters
ChunkBoundaryIndependenceBetweenCharacters ==
    CutsBetweenCharacters => C7_ChunkBoundaryIndependence

\* the choices of a written payload
Choices(data) ==
    IF GetProp(data, K_choices).type = "array"
    THEN GetProp(data, K_choices).items ELSE << >>

\* the delta of a choice, undefined when it has none
DeltaOf(item) == GetProp(item, K_delta)

\* the event carries the closing marker and nothing else
CloseOnly(event) ==
    /\ ~event.done
    /\ Len(Choices(event.data)) = 1
    /\ DeltaOf(Choices(event.data)[1]) = CloseDelta

CloseTag == <<"<","/","t","h","i","n","k",">">>

\* payload texts that parse to a chunk whose first delta has content and no
\* reasoning
ContentOnlyTexts ==
    { text \in PayloadTexts :
        /\ ~Includes(text, DoneToken)
        /\ ParseJSON(text).ok
        /\ HasFirstDelta(ParseJSON(text).data)
        /\ ToBoolean(GetProp(FirstDelta(ParseJSON(text).data), K_content))
        /\ ~ToBoolean(GetProp(FirstDelta(ParseJSON(text).data),
                              K_reasoning_content)) }

\* the event of a payload whose one choice has a delta with that content
TextEvent(content) ==
    JsonEvent(JObject(<<K_choices>>,
        <<JArray(<<JObject(<<K_delta>>,
                           <<JObject(<<K_content>>, <<JString(content)>>)>>)>>)>>))

\* C8: with trace display enabled, no written event carries the closing
\* marker together with other text; a delta with content and no reasoning
\* that arrives while a reasoning section is open makes the transformer
\* write an event carrying only the closing marker and then the event
\* carrying that content; and the deltas reasoning a, reasoning b, content c
\* give the opening marker with a, then b, then one closing-marker event,
\* then c.
C8_ClosingMarkerOwnEvent ==
    SHOW_REASONING =>
        /\ \A i \in 1..Len(out) : \A k \in 1..Len(Choices(out[i].data)) :
              LET content == GetProp(DeltaOf(Choices(out[i].data)[k]), K_content)
              IN  content.type = "string" /\ Includes(content.text, CloseTag)
                      => content.text = CloseMarker
        /\ phase = "streaming" /\ reasoningStarted =>
              \A text \in ContentOnlyTexts :
                  LET st == ProcessLine(StreamState, DataPrefix \o <<" ">> \o text)
                      n == Len(out)
                  IN  /\ Len(st.out) = n + 2
                      /\ SubSeq(st.out, 1, n) = out
                      /\ CloseOnly(st.out[n + 1])
                      /\ GetProp(FirstDelta(st.out[n + 2].data), K_content)
                            = GetProp(FirstDelta(ParseJSON(text).data), K_content)
                      /\ ~st.reasoningStarted
        /\ upstream = DataLine(J_ra) \o DataLine(J_rb) \o DataLine(J_cc)
           /\ pos = Len(upstream)
              => /\ Len(out) = 4
                 /\ out[1] = TextEvent(OpenMarker \o <<"a">>)
                 /\ out[2] = TextEvent(<<"b">>)
                 /\ CloseOnly(out[3])
                 /\ out[4] = TextEvent(<<"c">>)

\* reasoning a, reasoning b, content c were transformed with trace display on
C8_Witness ==
    /\ SHOW_REASONING
    /\ upstream = DataLine(J_ra) \o DataLine(J_rb) \o DataLine(J_cc)
    /\ phase = "ended"
    /\ Len(out) = 4

\* the reasoning texts of the line pools; no content text holds them
ReasoningTexts == { <<"a">>, <<"b">> }

\* C9: in every forwarded payload no choice's delta carries the upstream
\* reasoning field and every delta has a content string; with trace display
\* disabled no reasoning text reaches the caller.
C9_ReasoningFieldRemoved ==
    \A i \in 1..Len(out) : \A k \in 1..Len(Choices(out[i].data)) :
        LET delta == DeltaOf(Choices(out[i].data)[k])
        IN  delta.type = "object" =>
              /\ ~HasKey(delta, K_reasoning_content)
              /\ GetProp(delta, K_content).type = "string"
              /\ ~SHOW_REASONING =>
                    \A text \in ReasoningTexts :
                        ~Includes(GetProp(delta, K_content).text, text)

\* a complete data line that reaches JSON.parse and fails there
Malformed(rawLine) ==
    LET line == StripTrailingCR(rawLine)
    IN  /\ StartsWith(line, DataPrefix)
        /\ ~Includes(line, DoneToken)
        /\ ~ParseJSON(StripDataPrefix(line)).ok

RECURSIVE JoinKept(_)
JoinKept(lines) ==
    IF Len(lines) = 1 THEN lines[1]
    ELSE IF Malformed(Head(lines)) THEN JoinKept(Tail(lines))
    ELSE Head(lines) \o <<NL>> \o JoinKept(Tail(lines))

\* the text without its malformed complete lines
WithoutMalformed(s) == JoinKept(Split(s))

\* C10: a data line whose payload fails to parse writes nothing and leaves
\* buffer and reasoningStarted as they were, and the stream goes on: state
\* and output are those of the received text with its malformed lines
\* removed.
C10_MalformedLineDropped ==
    /\ phase = "streaming" =>
          /\ StreamState = AppendText(FreshState, WithoutMalformed(received))
          /\ ProcessLine(StreamState, SubSeq(MalformedLine, 1, Len(MalformedLine) - 1))
                = StreamState
    /\ phase = "ended" =>
          out = OnEnd(AppendText(FreshState, WithoutMalformed(received))).out

\* a malformed line arrived while a reasoning section was open, and the
\* content event after it was still preceded by the closing marker
C10_Witness ==
    /\ SHOW_REASONING
    /\ upstream = DataLine(J_ra) \o MalformedLine \o DataLine(J_cc)
    /\ phase = "ended"
    /\ Len(out) = 3
    /\ CloseOnly(out[2])

\* the line, once its carriage return is stripped, is a data line whose
\* whole payload is the termination token
TerminationLine(rawLine) ==
    LET line == StripTrailingCR(rawLine)
    IN  /\ StartsWith(line, DataPrefix)
        /\ DropTrailingWs(StripDataPrefix(line)) = DoneToken

\* the text holds the termination token in one line only, a termination
\* line, and nothing but blank lines follows it
EndsWithOneTermination(text) ==
    LET lines == Split(text)
    IN  \E i \in 1..Len(lines) :
            /\ TerminationLine(lines[i])
            /\ \A j \in 1..Len(lines) :
                /\ j # i => ~Includes(lines[j], DoneToken)
                /\ j > i => lines[j] \in {<< >>, <<CR>>}

\* C11: when the upstream sent one termination line, as its last line, and
\* then completed, the output written holds exactly one 'data: [DONE]'
\* event and that event is the last one.
C11_EndsWithDone ==
    phase = "ended" /\ EndsWithOneTermination(received) =>
        /\ out # << >>
        /\ out[Len(out)] = DoneEvent
        /\ Cardinality({ i \in 1..Len(out) : out[i].done }) = 1

\* the full call ended in a network error, a timeout or a non-2xx response
FailedOutcomes ==
    { o \in Outcomes : ~(o.kind = "response" /\ o.status >= 200 /\ o.status < 300) }

\* the settling of a request's full call with a failure answers it with the
\* error envelope, under the upstream's status or 500, and issues no call
EnvelopeOnFailure(r) ==
    \A o \in FailedOutcomes :
        LET answered == Settle(req[r], o)
        IN  /\ answered.pc = "done"
            /\ answered.reply = "error"
            /\ answered.status = IF o.kind = "response" THEN o.status ELSE 500
            /\ answered.nFull = req[r].nFull
            /\ answered.nProbe = req[r].nProbe

\* a streaming response never carries the envelope or a status but 200
StreamKeepsStatus(r) ==
    req[r].reply = "stream" =>
        /\ req[r].status \in {0, 200}
        /\ req[r].status = 0 => out = << >> /\ req[r].pc = "streaming"
        /\ phase \in {"ended", "errored"} => req[r].pc = "done" /\ req[r].status = 200

\* one step of a streaming response: the reply stays the stream, a status
\* sent stays as sent, and the upstream's failure writes nothing
StreamFailureOnlyEnds(r) ==
    req[r].reply = "stream" =>
        /\ req'[r].reply = "stream"
        /\ req[r].status # 0 => req'[r].status = req[r].status
        /\ phase = "streaming" /\ phase' = "errored" =>
              out' = out /\ req'[r].pc = "done"

\* C12: a failed full call is answered with the error envelope, carrying
\* the upstream's status when there is one and 500 otherwise; a streaming
\* response, once started, keeps status 200 and never turns into an
\* envelope: a later failure only ends it.
C12_FailureEnvelopeOrStreamEnd ==
    /\ [](\A r \in Requests :
            /\ req[r].pc = "full" => EnvelopeOnFailure(r)
            /\ req[r].reply = "error" /\ req[r].nFull = 1 =>
                  req[r].pc = "done" /\ req[r].status \in {404, 500, 503}
                  /\ phase = "none"
            /\ StreamKeepsStatus(r))
    /\ [][\A r \in Requests : StreamFailureOnlyEnds(r)]_vars

\* a streaming request whose full call was answered 404: the envelope was
\* sent under 404 and no stream was started
C12_Witness ==
    \E r \in Requests :
        /\ req[r].stream = Present(TRUE)
        /\ req[r].pc = "done"
        /\ req[r].nFull = 1
        /\ req[r].reply = "error"
        /\ req[r].status = 404

\* what the claim expects for an optional field: the supplied value, and
\* the default exactly when the field is absent
SuppliedOr(field, default) == IF field.present THEN field.v ELSE default

\* C13: the upstream request of every request that reached the full call
\* carries the supplied temperature, max_tokens and stream (0 and false
\* included), the fixed default where the field is absent, and the
\* caller's messages.
C13_DefaultsOnlyWhenAbsent ==
    \A r \in Requests :
        req[r].nFull = 1 =>
            /\ req[r].nimRequest.temperature =
                  SuppliedOr(req[r].temperature, DefaultTemperature)
            /\ req[r].nimRequest.max_tokens =
                  SuppliedOr(req[r].max_tokens, DefaultMaxTokens)
            /\ req[r].nimRequest.stream = SuppliedOr(req[r].stream, FALSE)
            /\ req[r].nimRequest.messages = req[r].messages

\* the indices at which the closing tag occurs in s
ClosingTagsAt(s) ==
    { i \in 1..Len(s) :
        i + Len(ThinkTagClose) - 1 <= Len(s)
        /\ SubSeq(s, i, i + Len(ThinkTagClose) - 1) = ThinkTagClose }

FirstClosingTag(s) ==
    CHOOSE i \in ClosingTagsAt(s) : \A j \in ClosingTagsAt(s) : i <= j

\* the text between the opening tag and the first closing tag
Bracketed(s) == SubSeq(s, Len(ThinkTagOpen) + 1, FirstClosingTag(s) - 1)

\* the text after the first closing tag
AfterBracket(s) == SubSeq(s, FirstClosingTag(s) + Len(ThinkTagClose), Len(s))

\* the case of the claim: no thinking-eligible model, no reasoning field,
\* content opening with the tag and holding a closing tag
InlineTrace ==
    /\ ~useThinking
    /\ ~Truthy(choice.reasoning_content)
    /\ IsString(choice.content)
    /\ StartsWith(choice.content, ThinkTagOpen)
    /\ ClosingTagsAt(choice.content) # {}

\* C14, as amended: for an inline trace, the translated content is, with
\* trace display disabled, exactly the trimmed text after the first closing
\* tag; with trace display enabled it is the re-bracketed trimmed reasoning
\* followed by that text.
C14_InlineTraceExtraction ==
    translated # undefined /\ InlineTrace =>
        LET inner == Trim(Bracketed(choice.content))
            after == Trim(AfterBracket(choice.content))
        IN  IF SHOW_REASONING
            THEN translated = OpenMarker \o inner \o <<NL>> \o ThinkTagClose
                                \o <<NL, NL>> \o after
            ELSE translated = after

\* C14, as first stated: with trace display disabled the translated content
\* is moreover free of the bracketed reasoning, whatever follows the closing
\* tag. It fails where the text after the tag repeats the reasoning:
\* "<think> x</think> x" is translated to "x".
C14_NoBracketedText ==
    translated # undefined /\ InlineTrace /\ ~SHOW_REASONING =>
        LET inner == Trim(Bracketed(choice.content))
        IN  /\ translated = Trim(AfterBracket(choice.content))
            /\ inner # << >> => ~Includes(translated, inner)

\* "<think> x</think>y " translated with trace display disabled: the
\* reasoning " x" is gone and the text after the closing tag is trimmed
C14_Witness ==
    /\ ~SHOW_REASONING
    /\ InlineTrace
    /\ Bracketed(choice.content) = <<" ", "x">>
    /\ AfterBracket(choice.content) = <<"y", " ">>
    /\ translated = <<"y">>

\* every entry maps its key to the key itself or to null, and no key is an
\* alias
CacheWellFormed ==
    \A k \in DOMAIN verifiedModels :
        /\ verifiedModels[k] \in {k, null}
        /\ k \notin DOMAIN MODEL_MAPPING

\* whatever the probe of request r comes to, a 2xx answer caches the name
\* under itself and anything else caches null
ProbeCachesOutcome(r) ==
    \A o \in Outcomes :
        ProbeResult(req[r].model, o).cached =
            IF o.kind = "response" /\ o.status >= 200 /\ o.status < 300
            THEN req[r].model
            ELSE null

\* the step that ends the probe of request r writes the entry of its name,
\* and the name the request goes on with is the entry's or the fallback's
CachedBeforeUsed(r) ==
    req[r].pc = "probe" /\ req'[r].pc # "probe" =>
        /\ req[r].model \in DOMAIN verifiedModels'
        /\ req'[r].writes = 1
        /\ verifiedModels'[req[r].model] = req[r].model =>
              req'[r].nimModel = req[r].model
        /\ verifiedModels'[req[r].model] = null /\ IsString(req[r].model) =>
              req'[r].nimModel = Fallback(req[r].model)

\* C15: the cache only ever holds name -> name or name -> null, never for
\* an alias; a probe answered 2xx writes name -> name and every other
\* outcome writes name -> null, before the result is used; no entry is
\* ever removed.
C15_CacheHoldsNameOrNone ==
    /\ [](CacheWellFormed
          /\ \A r \in Requests : req[r].pc = "probe" => ProbeCachesOutcome(r))
    /\ [][/\ \A k \in DOMAIN verifiedModels : k \in DOMAIN verifiedModels'
          /\ \A r \in Requests : CachedBeforeUsed(r)]_vars

\* a probe of 'my-70b' failed: null is cached and the request that probed
\* went on to the full call with the fallback model
C15_Witness ==
    /\ <<"m","y","-","7","0","b">> \in DOMAIN verifiedModels
    /\ verifiedModels[<<"m","y","-","7","0","b">>] = null
    /\ \E r \in Requests :
        /\ req[r].model = <<"m","y","-","7","0","b">>
        /\ req[r].nProbe = 1
        /\ req[r].nFull = 1
        /\ req[r].nimModel = Llama70b

\* the probe of request r failed: it cached null and the request went on
\* with the fallback model
ProbeFailed(r) ==
    /\ req[r].nProbe = 1
    /\ req[r].writes = 1
    /\ IsString(req[r].model)
    /\ req[r].nimModel # req[r].model

\* C16: once the probe of a request has failed and null has been cached
\* for its name, the entry of that name stays null.
C16_FailedProbePermanent ==
    \A r \in Requests :
        ProbeFailed(r) =>
            /\ req[r].model \in DOMAIN verifiedModels
            /\ verifiedModels[req[r].model] = null

\* the content of the first choice's delta of a written event, << >> when
\* the event has none
EventContent(event) ==
    IF ~event.done /\ HasFirstDelta(event.data)
       /\ GetProp(FirstDelta(event.data), K_content).type = "string"
    THEN GetProp(FirstDelta(event.data), K_content).text
    ELSE << >>

Opens(event) == StartsWith(EventContent(event), OpenMarker)

Closes(event) == EventContent(event) = CloseMarker

\* opening markers less closing markers among the first n events written
RECURSIVE OpenSections(_)
OpenSections(n) ==
    IF n = 0 THEN 0
    ELSE OpenSections(n - 1)
         + (IF Opens(out[n]) THEN 1 ELSE 0) - (IF Closes(out[n]) THEN 1 ELSE 0)

\* C17: with trace display enabled the markers written alternate, an
\* opening marker first, and reasoningStarted tells whether a section is
\* open; no section is open when 'data: [DONE]' is written; a stream that
\* completed without an upstream error has as many closing markers as
\* opening markers.
C17_ReasoningSectionsClosed ==
    SHOW_REASONING /\ phase # "none" =>
        /\ \A n \in 0..Len(out) : OpenSections(n) \in {0, 1}
        /\ \A n \in 1..Len(out) :
            /\ Opens(out[n]) => OpenSections(n - 1) = 0
            /\ Closes(out[n]) => OpenSections(n - 1) = 1
            /\ out[n].done => OpenSections(n - 1) = 0
        /\ phase = "streaming" =>
              reasoningStarted = (OpenSections(Len(out)) = 1)
        /\ phase = "ended" => OpenSections(Len(out)) = 0

\* the upstream completed while a section was open and no termination line
\* had come: the last event written is the closing marker
C17_Witness ==
    /\ SHOW_REASONING
    /\ phase = "ended"
    /\ reasoningStarted
    /\ Len(out) = 3
    /\ Opens(out[1])
    /\ ~Opens(out[2]) /\ ~Closes(out[2])
    /\ out[3] = CloseEvent

\* C18: the step in which the upstream stream fails writes nothing and ends
\* the response; afterwards the output is what the data events had written
\* for the complete lines received, the last event being no closing marker
\* or termination event added for the error, and the held-back partial
\* line is never written.
C18_StreamErrorEndsWithoutWrite ==
    /\ [][phase = "streaming" /\ phase' = "errored" =>
            /\ out' = out
            /\ \A r \in Requests :
                req[r].pc = "streaming" => req'[r].pc = "done"]_vars
    /\ [][phase = "errored" => out' = out /\ phase' = "errored"]_vars
    /\ [](phase = "errored" => out = AppendText(FreshState, received).out)

\* the upstream failed while a reasoning section was open and a partial
\* line was held back: one event written, no closing marker after it
C18_Witness ==
    /\ phase = "errored"
    /\ SHOW_REASONING
    /\ reasoningStarted
    /\ buffer # << >>
    /\ Len(out) = 1
    /\ Opens(out[1])

\* upstream calls of request r issued and not yet settled
Outstanding(r) ==
    (IF req[r].pc = "probe" THEN 1 ELSE 0) + (IF req[r].pc = "full" THEN 1 ELSE 0)

\* upstream calls of request r that have settled
Settled(r) ==
    req[r].writes
    + (IF req[r].nFull = 1 /\ req[r].pc \in {"done", "streaming"} THEN 1 ELSE 0)

\* C19: a request issues at most one probe and at most one full call,
\* whatever their outcomes, and has at most one of them outstanding; its
\* full call is issued only once its probe, if any, has settled and has
\* been cached; a request for an alias, or for a name found in the cache,
\* issues no probe.
C19_OneProbeOneFullCall ==
    \A r \in Requests :
        /\ req[r].nProbe <= 1
        /\ req[r].nFull <= 1
        /\ Outstanding(r) <= 1
        /\ req[r].nProbe + req[r].nFull = Outstanding(r) + Settled(r)
        /\ req[r].pc = "probe" => req[r].nProbe = 1 /\ req[r].nFull = 0
        /\ req[r].nFull = 1 /\ req[r].nProbe = 1 =>
              /\ req[r].writes = 1
              /\ req[r].model \in DOMAIN verifiedModels
        /\ req[r].nFull = 1 /\ req[r].nProbe = 0 => req[r].writes = 0
        /\ IsAlias(req[r].model) => req[r].nProbe = 0
        /\ req[r].reads = 2 => req[r].nProbe = 0

\* a request whose probe failed and whose full call then failed with 503:
\* one probe, one full call, and the error is surfaced without a retry
C19_Witness ==
    \E r \in Requests :
        /\ req[r].pc = "done"
        /\ req[r].status = 503
        /\ req[r].nProbe = 1
        /\ req[r].nFull = 1
        /\ req[r].nimModel = Llama70b

\* the complete lines received so far
CompleteLines == SubSeq(Split(received), 1, Len(Split(received)) - 1)

\* a data line that is no termination line and whose payload is a JSON
\* object or number
PayloadLine(rawLine) ==
    LET line == StripTrailingCR(rawLine)
    IN  /\ StartsWith(line, DataPrefix)
        /\ ~TerminationLine(rawLine)
        /\ ParseJSON(StripDataPrefix(line)).ok
        /\ ParseJSON(StripDataPrefix(line)).data.type # "null"

\* every complete line received that holds the termination token is a
\* termination line or carries the token inside a well-formed payload
TokenOnlyInPayloads ==
    \A j \in 1..Len(CompleteLines) :
        Includes(CompleteLines[j], DoneToken) =>
            TerminationLine(CompleteLines[j]) \/ PayloadLine(CompleteLines[j])

\* C20: the payload events forwarded so far are as many as the complete
\* data lines with a well-formed payload received so far, whatever text
\* the payloads hold, and the 'data: [DONE]' events written are as many as
\* the lines whose whole payload is the termination token.
C20_EventPreservation ==
    phase = "streaming" /\ TokenOnlyInPayloads =>
        /\ Cardinality({ i \in 1..Len(out) : ~out[i].done /\ ~CloseOnly(out[i]) })
              = Cardinality({ j \in 1..Len(CompleteLines) :
                                PayloadLine(CompleteLines[j]) })
        /\ Cardinality({ i \in 1..Len(out) : out[i].done })
              = Cardinality({ j \in 1..Len(CompleteLines) :
                                TerminationLine(CompleteLines[j]) })

====
